---------------------------- MODULE Spec2Model ----------------------------
(***************************************************************************)
(* Wailing Newt Web Walker: the robots.txt policy engine                   *)
(* (src/core/robots_parser.py), the per-session instance registry          *)
(* (src/app_state.py), the status poll (src/blueprints/crawl.py), the      *)
(* history endpoints (src/blueprints/history.py) and the process           *)
(* lifecycle (main.py), each as a state machine of its own.                *)
(*                                                                         *)
(* Strings of the program whose characters matter (robots paths, agent     *)
(* names) are sequences of one-character strings; a robots.txt text is the *)
(* sequence of its lines, each line the (directive, value) pair           *)
(* RobotsParser.parse obtains from it.                                     *)
(***************************************************************************)
EXTENDS Integers, Sequences, FiniteSets, TLC

VARIABLES
    rules,      \* SpecRules: one UserAgentRules object
    check,      \* SpecRules: the last is_allowed call on it
    content,    \* SpecParse: the robots.txt text handed to parse / served
    parser,     \* SpecParse: one RobotsParser object
    last,       \* SpecParse: the last call on the parser and what it returned
    mgr,        \* SpecCustom: one CustomRobotsManager object
    resaved,    \* SpecCustom: the subdomains whose override replaced an earlier one
    crawl_results,       \* SpecPoll: the crawler's page list
    force_full_refresh,  \* SpecPoll: the session's full-refresh flag
    url_cursor,          \* SpecPoll: the polling client's cursor
    received,            \* SpecPoll: the pages the client has been sent
    poll,                \* SpecPoll: the last status poll and its answer
    crawler_instances,   \* SpecReg: session id -> crawler, settings, last_accessed
    instances_lock,      \* SpecReg: the holder of instances_lock, or "free"
    threads,             \* SpecReg: each request thread's call and its position
    clock,               \* SpecReg: datetime.now(), in hours
    next_obj,            \* SpecReg: the identity the next constructed pair gets
    pairs,               \* SpecReg: the pairs made for each id since it was last evicted
    cleaner,             \* SpecReg: the cleanup thread's position and captured time
    sweep,               \* SpecReg: the cleanup pass in progress
    proc,                \* SpecLife: the server process: down, starting, recovered, serving, exited
    db,                  \* SpecLife: crawl id -> persisted status
    swept,               \* SpecLife: what the startup sweep found
    shut,                \* SpecLife: what the last graceful shutdown did
    crawls,              \* SpecHist: crawl id -> persisted row (user_id, status)
    session,             \* SpecHist: session id -> the Flask session's user_id and flag
    crawlers,            \* SpecHist: session id -> what the session's crawler holds
    load,                \* SpecHist: the load_crawl_into_session request in progress
    answer,              \* SpecHist: the last answer of a history endpoint
    snap,                \* SpecHist: the last get_status snapshot read during a load
    detected_issues,     \* SpecFilter: the stored issue list
    exclusion_patterns,  \* SpecFilter: the pattern list of the settings
    filtered,            \* SpecFilter: what the filter returned, and returned again
    cookie,              \* SpecIsolate: browser -> the session_id of its Flask session
    managers,            \* SpecIsolate: _custom_robots_managers, key -> manager object
    heap,                \* SpecIsolate: manager object -> its CustomRobotsManager state
    reqs,                \* SpecIsolate: each request thread's request and position
    reply,               \* SpecIsolate: the last answer of a custom-robots endpoint
    kept,                \* SpecIsolate: browser -> the overrides it saved and did not delete
    handed,              \* SpecIsolate: key -> the objects get_custom_robots_manager returned
    local_mode,          \* SpecGuest: app.config['LOCAL_MODE']
    guest_rows,          \* SpecGuest: the guest crawls logged for the IP in the last 24 hours
    started,             \* SpecGuest: the guest crawls started from the IP in that time
    starts,              \* SpecGuest: each thread's start_crawl request and its position
    last_start,          \* SpecGuest: the last guest request that started a crawl
    doc,                 \* SpecSyllables, SpecAnalyze: the text handed to the analyzer
    analysis,            \* SpecSyllables, SpecAnalyze: what the analyzer returned for it
    due,                 \* SpecRefresh: the sessions a load completed for since their last poll
    polled               \* SpecRefresh: the last status poll and its answer

rulesVars == <<rules, check>>
parseVars == <<content, parser, last>>
customVars == <<mgr, resaved>>
pollVars == <<crawl_results, force_full_refresh, url_cursor, received, poll>>
regVars == <<crawler_instances, instances_lock, threads, clock, next_obj, pairs,
             cleaner, sweep>>
lifeVars == <<proc, db, swept, shut>>
histVars == <<crawls, session, crawlers, load, answer, snap>>
filterVars == <<detected_issues, exclusion_patterns, filtered>>
refreshVars == <<due, polled>>
overrideVars == <<cookie, managers, heap, reqs, reply, kept, handed>>
guestVars == <<local_mode, guest_rows, started, starts, last_start>>
analyzeVars == <<doc, analysis>>
restVars == <<refreshVars, overrideVars, guestVars, analyzeVars>>
vars == <<rulesVars, parseVars, customVars, pollVars, regVars, lifeVars, histVars,
          filterVars, restVars>>

\* What each specification leaves alone.
notRules == <<parseVars, customVars, pollVars, regVars, lifeVars, histVars, filterVars,
    restVars>>
notParse == <<rulesVars, customVars, pollVars, regVars, lifeVars, histVars, filterVars,
    restVars>>
notCustom == <<rulesVars, parseVars, pollVars, regVars, lifeVars, histVars, filterVars,
    restVars>>
notPoll == <<rulesVars, parseVars, customVars, regVars, lifeVars, histVars, filterVars,
    restVars>>
notReg == <<rulesVars, parseVars, customVars, pollVars, lifeVars, histVars, filterVars,
    restVars>>
notLife == <<rulesVars, parseVars, customVars, pollVars,
             instances_lock, threads, clock, pairs, cleaner, sweep, histVars,
             filterVars, restVars>>
notFilter == <<rulesVars, parseVars, customVars, pollVars, regVars, lifeVars, histVars,
    restVars>>
notHist == <<rulesVars, parseVars, customVars, pollVars, regVars, lifeVars, filterVars,
    restVars>>


(***************************************************************************)
(* Bounds                                                                  *)
(***************************************************************************)
MaxDirectives == 3
MaxLines == 5
MaxFetchErrors == 1
MaxCustomLines == 2
MaxPages == 4
MaxClock == 3
MaxPairs == 2
MaxCrawls == 2
MaxStored == 2
MaxIssues == 2
MaxSelectLines == 4

\* The lines of the texts test_path is asked about.
MaxTestLines == 3
MaxMatchDirectives == 2
MaxGroupLines == 3
MaxCursor == 1
MaxManagers == 3
MaxStarts == 5
MaxTextLen == 6
MaxFew == 2
MaxNear == 1
MaxFetchLines == 2
MaxPatterns == 2

(***************************************************************************)
(* RobotsDirective                                                         *)
(***************************************************************************)
\* The paths directives are declared with and the paths they are asked about.
RulePaths ==
    { <<>>, <<"/">>, <<"/", "a">>, <<"/", "*">>, <<"/", "a", "$">>,
      <<"/", "a", "/", "b">> }

TestPaths ==
    { <<"/">>, <<"/", "a">>, <<"/", "b">>, <<"/", "a", "/", "b">> }

\* One regex token per character of the path: re.escape makes every character
\* a literal, then `\*` becomes `.*` and `\$` becomes `$`.
Token(c) ==
    IF c = "*" THEN [t |-> "any", c |-> c]
    ELSE IF c = "$" THEN [t |-> "end", c |-> c]
    ELSE [t |-> "lit", c |-> c]

\* _compile_pattern: the tokens of the path, with a `.*` added unless the
\* pattern already ends in `$` or `.*`.
CompilePattern(path) ==
    LET toks == [i \in 1..Len(path) |-> Token(path[i])]
    IN  IF Len(toks) > 0 /\ toks[Len(toks)].t \in {"end", "any"}
        THEN toks
        ELSE Append(toks, [t |-> "any", c |-> "*"])

\* re.match of tokens i.. against s from position j: anchored at the start
\* (the `^`), free at the end.
RECURSIVE ReMatch(_, _, _, _)
ReMatch(toks, i, s, j) ==
    IF i > Len(toks) THEN TRUE
    ELSE IF toks[i].t = "lit"
         THEN j <= Len(s) /\ s[j] = toks[i].c /\ ReMatch(toks, i + 1, s, j + 1)
    ELSE IF toks[i].t = "end"
         THEN j = Len(s) + 1 /\ ReMatch(toks, i + 1, s, j)
    ELSE \E k \in j..(Len(s) + 1) : ReMatch(toks, i + 1, s, k)

\* RobotsDirective.matches
Matches(directive, path) == ReMatch(CompilePattern(directive.path), 1, path, 1)

\* RobotsDirective(path, allow)
RobotsDirective(path, allow) == [path |-> path, allow |-> allow]

(***************************************************************************)
(* UserAgentRules                                                          *)
(***************************************************************************)
\* crawl_delay and request_rate are None until a line sets them.
NoDelay == [set |-> FALSE, value |-> <<>>]
NoRate == [set |-> FALSE, requests |-> <<>>, seconds |-> <<>>]

NewUserAgentRules(ua) ==
    [user_agent |-> ua, directives |-> <<>>,
     crawl_delay |-> NoDelay, request_rate |-> NoRate]

AddDirectiveTo(r, path, allow) ==
    [r EXCEPT !.directives = Append(@, RobotsDirective(path, allow))]

\* The loop of is_allowed over directives[i..]: best is the index of the best
\* match so far (0: none), bestLen its pattern length (-1: none).
RECURSIVE BestMatchFrom(_, _, _, _, _)
BestMatchFrom(ds, path, i, best, bestLen) ==
    IF i > Len(ds) THEN best
    ELSE IF Matches(ds[i], path) /\ Len(ds[i].path) > bestLen
         THEN BestMatchFrom(ds, path, i + 1, i, Len(ds[i].path))
         ELSE BestMatchFrom(ds, path, i + 1, best, bestLen)

\* The loop started with best_length = 0: a pattern has to be longer than
\* the empty one to be taken
BestMatchAboveEmpty(ds, path) == BestMatchFrom(ds, path, 1, 0, 0)

BestMatch(ds, path) == BestMatchFrom(ds, path, 1, 0, -1)

\* UserAgentRules.is_allowed
RulesIsAllowed(ds, path) ==
    IF ds = <<>> THEN TRUE
    ELSE LET best == BestMatch(ds, path)
         IN  IF best = 0 THEN TRUE ELSE ds[best].allow

(***************************************************************************)
(* RobotsParser                                                            *)
(***************************************************************************)
\* A line of a robots.txt text after `line.split('#')[0].strip()` and
\* `line.split(':', 1)`: k is "blank" (nothing left), "invalid" (no colon) or
\* "pair" with the lower-cased directive d and the stripped value v.
Line(d, v) == [k |-> "pair", d |-> d, v |-> v]

Digits == {"0", "1", "5"}

\* float(value) succeeds: over digits and ".", a numeral with at least one
\* digit and at most one point.
IsFloat(v) ==
    /\ \E i \in 1..Len(v) : v[i] \in Digits
    /\ \A i \in 1..Len(v) : v[i] \in Digits \cup {"."}
    /\ Cardinality({i \in 1..Len(v) : v[i] = "."}) <= 1

\* int(part) succeeds: a non-empty run of digits.
IsInt(v) == Len(v) > 0 /\ \A i \in 1..Len(v) : v[i] \in Digits

\* value.split('/')
SlashAt(v) == {i \in 1..Len(v) : v[i] = "/"}

NewParser ==
    [user_agent_rules |-> <<>>, sitemaps |-> <<>>, raw_content |-> <<>>,
     parse_errors |-> <<>>, url |-> "", last_fetched |-> FALSE]

\* An error that names no line.
ParseErrorUnnumbered(n, msg) == [line |-> 0, msg |-> msg]

\* `f"Line {line_num}: ..."`
ParseError(n, msg) == [line |-> n, msg |-> msg]

\* user_agent_rules[ua] = UserAgentRules(ua) when ua is not a key yet
EnsureAgent(uar, ua) ==
    IF ua \in DOMAIN uar THEN uar ELSE uar @@ (ua :> NewUserAgentRules(ua))

\* `for ua in current_user_agents: ... add_directive(value, is_allow)`
RECURSIVE AttachDirective(_, _, _, _, _)
AttachDirective(uar, agents, i, path, allow) ==
    IF i > Len(agents) THEN uar
    ELSE LET with == EnsureAgent(uar, agents[i])
         IN  AttachDirective(
                 [with EXCEPT ![agents[i]] = AddDirectiveTo(@, path, allow)],
                 agents, i + 1, path, allow)

\* `for ua in current_user_agents: if ua in user_agent_rules: ...crawl_delay = delay`
SetCrawlDelay(uar, agents, v) ==
    [ua \in DOMAIN uar |->
        IF \E i \in 1..Len(agents) : agents[i] = ua
        THEN [uar[ua] EXCEPT !.crawl_delay = [set |-> TRUE, value |-> v]]
        ELSE uar[ua]]

SetRequestRate(uar, agents, n, m) ==
    [ua \in DOMAIN uar |->
        IF \E i \in 1..Len(agents) : agents[i] = ua
        THEN [uar[ua] EXCEPT
                 !.request_rate = [set |-> TRUE, requests |-> n, seconds |-> m]]
        ELSE uar[ua]]

\* A user-agent line: the test that decides between a new block and a
\* continuation looks at the directives the FIRST agent of the current group
\* holds in user_agent_rules.
StartsNewBlock(uar, current) ==
    /\ current # <<>>
    /\ current[1] \in DOMAIN uar
    /\ uar[current[1]].directives # <<>>

\* One iteration of the loop of parse: st is [uar, sitemaps, errors, current].
ParseLine(st, line, n) ==
    IF line.k = "blank" THEN st
    ELSE IF line.k = "invalid"
         THEN [st EXCEPT !.errors = Append(@, ParseError(n, "Invalid syntax"))]
    ELSE IF line.d = "user-agent"
         THEN LET uar == EnsureAgent(st.uar, line.v)
              IN  [st EXCEPT
                      !.uar = uar,
                      !.current = IF StartsNewBlock(uar, st.current)
                                  THEN <<line.v>>
                                  ELSE Append(st.current, line.v)]
    ELSE IF line.d \in {"disallow", "allow"}
         THEN IF st.current = <<>>
              THEN [st EXCEPT !.errors =
                       Append(@, ParseError(n, "Directive without user-agent"))]
              ELSE [st EXCEPT !.uar =
                       AttachDirective(@, st.current, 1, line.v, line.d = "allow")]
    ELSE IF line.d = "crawl-delay"
         THEN IF IsFloat(line.v)
              THEN [st EXCEPT !.uar = SetCrawlDelay(@, st.current, line.v)]
              ELSE [st EXCEPT !.errors =
                       Append(@, ParseError(n, "Invalid crawl-delay value"))]
    ELSE IF line.d = "request-rate"
         THEN IF Cardinality(SlashAt(line.v)) # 1 THEN st
              ELSE LET s == CHOOSE i \in SlashAt(line.v) : TRUE
                       a == SubSeq(line.v, 1, s - 1)
                       b == SubSeq(line.v, s + 1, Len(line.v))
                   IN  IF IsInt(a) /\ IsInt(b)
                       THEN [st EXCEPT !.uar = SetRequestRate(@, st.current, a, b)]
                       ELSE [st EXCEPT !.errors =
                                Append(@, ParseError(n, "Invalid request-rate value"))]
    ELSE IF line.d = "sitemap"
         THEN IF line.v # <<>> /\ \A i \in 1..Len(st.sitemaps) : st.sitemaps[i] # line.v
              THEN [st EXCEPT !.sitemaps = Append(@, line.v)]
              ELSE st
    ELSE IF line.d = "host" THEN st
    ELSE [st EXCEPT !.errors = Append(@, ParseError(n, "Unknown directive"))]

RECURSIVE ParseFrom(_, _, _)
ParseFrom(st, text, n) ==
    IF n > Len(text) THEN st
    ELSE ParseFrom(ParseLine(st, text[n], n), text, n + 1)

\* RobotsParser.parse on the parser object p
Parse(p, text) ==
    LET st == ParseFrom([uar |-> <<>>, sitemaps |-> <<>>, errors |-> <<>>,
                         current |-> <<>>], text, 1)
    IN  [p EXCEPT !.raw_content = text,
                  !.user_agent_rules = st.uar,
                  !.sitemaps = st.sitemaps,
                  !.parse_errors = st.errors]

\* A URL as urlparse gives it.
Url(netloc, path, query) == [netloc |-> netloc, path |-> path, query |-> query]

\* `path = parsed.path; if parsed.query: path += '?' + parsed.query`
UrlPath(url) ==
    IF url.query # <<>> THEN url.path \o <<"?">> \o url.query ELSE url.path

\* A selection that looks at the `*` rule set before the agent's own
ParserIsAllowedWildcardFirst(p, url, ua) ==
    IF <<"*">> \in DOMAIN p.user_agent_rules
    THEN RulesIsAllowed(p.user_agent_rules[<<"*">>].directives, UrlPath(url))
    ELSE IF ua \in DOMAIN p.user_agent_rules
    THEN RulesIsAllowed(p.user_agent_rules[ua].directives, UrlPath(url))
    ELSE TRUE

\* RobotsParser.get_rules_for_user_agent: found is FALSE for None
GetRulesForUserAgent(p, ua) ==
    IF ua \in DOMAIN p.user_agent_rules
    THEN [found |-> TRUE, rules |-> p.user_agent_rules[ua]]
    ELSE IF <<"*">> \in DOMAIN p.user_agent_rules
    THEN [found |-> TRUE, rules |-> p.user_agent_rules[<<"*">>]]
    ELSE [found |-> FALSE, rules |-> NewUserAgentRules(<<>>)]

\* RobotsParser.is_allowed
ParserIsAllowed(p, url, ua) ==
    IF ua \in DOMAIN p.user_agent_rules
    THEN RulesIsAllowed(p.user_agent_rules[ua].directives, UrlPath(url))
    ELSE IF <<"*">> \in DOMAIN p.user_agent_rules
    THEN RulesIsAllowed(p.user_agent_rules[<<"*">>].directives, UrlPath(url))
    ELSE TRUE

\* What requests.get can come back with.
Responses == {"200", "404", "500", "timeout", "neterror"}

\* A fetch that fails without a word: no error appended
FetchAndParseSilent(p, resp, body) ==
    LET q == [p EXCEPT !.url = "robots.txt"]
    IN  IF resp = "200"
        THEN [parser |-> [Parse(q, body) EXCEPT !.last_fetched = TRUE], ok |-> TRUE]
        ELSE IF resp = "404"
        THEN [parser |-> [q EXCEPT !.raw_content = <<>>], ok |-> TRUE]
        ELSE [parser |-> q, ok |-> FALSE]

\* RobotsParser.fetch_and_parse on p, when the request ends as resp (with
\* body, for a 200): the parser afterwards and the value returned.
FetchAndParse(p, resp, body) ==
    LET q == [p EXCEPT !.url = "robots.txt"]
    IN  IF resp = "200"
        THEN [parser |-> [Parse(q, body) EXCEPT !.last_fetched = TRUE], ok |-> TRUE]
        ELSE IF resp = "404"
        THEN [parser |-> [q EXCEPT !.raw_content = <<>>], ok |-> TRUE]
        ELSE IF resp = "timeout"
        THEN [parser |-> [q EXCEPT !.parse_errors =
                             Append(@, ParseError(0, "Request timed out"))],
              ok |-> FALSE]
        ELSE IF resp = "neterror"
        THEN [parser |-> [q EXCEPT !.parse_errors =
                             Append(@, ParseError(0, "Network error"))],
              ok |-> FALSE]
        ELSE [parser |-> [q EXCEPT !.parse_errors = Append(@, ParseError(0, "HTTP"))],
              ok |-> FALSE]

(***************************************************************************)
(* CustomRobotsManager                                                     *)
(***************************************************************************)
NewManager == [custom_robots |-> <<>>, parsers |-> <<>>]

\* dict[key] = value
Put(d, key, value) ==
    [k \in DOMAIN d \cup {key} |-> IF k = key THEN value ELSE d[k]]

\* del dict[key]
Del(d, key) == [k \in DOMAIN d \ {key} |-> d[k]]

\* add_subdomain as it would be if it parsed into the parser the subdomain
\* already has and parse did not start from empty rules.
SubdomainParserMerging(parsers, subdomain, text) ==
    IF subdomain \in DOMAIN parsers
    THEN LET old == parsers[subdomain]
             st == ParseFrom([uar |-> old.user_agent_rules,
                              sitemaps |-> old.sitemaps,
                              errors |-> old.parse_errors,
                              current |-> <<>>], text, 1)
         IN  [old EXCEPT !.raw_content = text,
                         !.user_agent_rules = st.uar,
                         !.sitemaps = st.sitemaps,
                         !.parse_errors = st.errors]
    ELSE Parse(NewParser, text)

\* What add_subdomain stores as parsers[subdomain], given the parsers held so
\* far: a new RobotsParser that has parsed the content.
SubdomainParser(parsers, subdomain, text) == Parse(NewParser, text)

\* CustomRobotsManager.add_subdomain
AddSubdomainTo(m, subdomain, text) ==
    [custom_robots |-> Put(m.custom_robots, subdomain, text),
     parsers |-> Put(m.parsers, subdomain,
                     SubdomainParser(m.parsers, subdomain, text))]

\* CustomRobotsManager.remove_subdomain
RemoveSubdomainFrom(m, subdomain) ==
    IF subdomain \in DOMAIN m.custom_robots
    THEN [custom_robots |-> Del(m.custom_robots, subdomain),
          parsers |-> IF subdomain \in DOMAIN m.parsers
                      THEN Del(m.parsers, subdomain) ELSE m.parsers]
    ELSE m

\* CustomRobotsManager.is_allowed
CustomIsAllowed(m, url, ua) ==
    IF url.netloc \in DOMAIN m.parsers
    THEN ParserIsAllowed(m.parsers[url.netloc], url, ua)
    ELSE TRUE

\* `if not path.startswith('/'): path = '/' + path`
EnsureSlash(path) ==
    IF path # <<>> /\ path[1] = "/" THEN path ELSE <<"/">> \o path

\* A test_path that reports the first directive that matches
ParserTestPathFirstMatch(p, path, ua) ==
    LET full == EnsureSlash(path)
        found == GetRulesForUserAgent(p, ua)
        ds == found.rules.directives
        matching == {i \in 1..Len(ds) : Matches(ds[i], full)}
        first == CHOOSE i \in matching : \A j \in matching : i <= j
    IN  IF ~found.found \/ matching = {}
        THEN [path |-> full, allowed |-> TRUE, matched_rule |-> <<>>,
              reason |-> "No matching rules found"]
        ELSE [path |-> full, allowed |-> ds[first].allow, matched_rule |-> <<ds[first]>>,
              reason |-> "Matched by rule"]

\* RobotsParser.test_path: matched_rule is <<>> for None, else the one
\* directive that decided
ParserTestPath(p, path, ua) ==
    LET full == EnsureSlash(path)
        found == GetRulesForUserAgent(p, ua)
        best == BestMatch(found.rules.directives, full)
    IN  IF ~found.found
        THEN [path |-> full, allowed |-> TRUE, matched_rule |-> <<>>,
              reason |-> "No rules defined for this user agent"]
        ELSE IF best = 0
        THEN [path |-> full, allowed |-> TRUE, matched_rule |-> <<>>,
              reason |-> "No matching rules found"]
        ELSE [path |-> full, allowed |-> found.rules.directives[best].allow,
              matched_rule |-> <<found.rules.directives[best]>>,
              reason |-> "Matched by rule"]

\* CustomRobotsManager.test_path
ManagerTestPath(m, subdomain, path, ua) ==
    IF subdomain \notin DOMAIN m.parsers
    THEN [path |-> path, allowed |-> TRUE, matched_rule |-> <<>>,
          reason |-> "No custom robots.txt for this subdomain"]
    ELSE ParserTestPath(m.parsers[subdomain], path, ua)

\* CustomRobotsManager.to_dict
ToDict(m) == [custom_robots |-> m.custom_robots]

\* CustomRobotsManager.from_dict: add_subdomain for each item of the data, on
\* emptied maps.
RECURSIVE AddAll(_, _, _)
AddAll(m, data, keys) ==
    IF keys = {} THEN m
    ELSE LET k == CHOOSE x \in keys : TRUE
         IN  AddAll(AddSubdomainTo(m, k, data[k]), data, keys \ {k})

FromDict(data) == AddAll(NewManager, data.custom_robots, DOMAIN data.custom_robots)

(***************************************************************************)
(* The status poll (blueprints/crawl.py)                                   *)
(***************************************************************************)
\* The URLs a job crawls, each at most once.
PageUrls == {"/", "/p1", "/p2", "/p3", "/p4"}

\* WebCrawler.get_status()['urls']: the page list as it stands.
GetStatusUrls(pages) == pages

\* list[since + 1:]: the slice one place too far
SliceFromNext(list, since) == SubSeq(list, since + 2, Len(list))

\* list[since:] for 0 <= since
SliceFrom(list, since) == SubSeq(list, since + 1, Len(list))

\* The urls crawl_status answers with: the whole list when the full-refresh
\* flag was set or no url_since was passed, its slice otherwise.
StatusUrls(pages, force_full, since_given, since) ==
    IF ~force_full /\ since_given
    THEN SliceFrom(GetStatusUrls(pages), since)
    ELSE GetStatusUrls(pages)

NoPoll == [made |-> FALSE, since |-> 0, total |-> 0, urls |-> <<>>, forced |-> FALSE]

(***************************************************************************)
(* The instance registry (app_state.py)                                    *)
(***************************************************************************)
Sessions == {"s1", "s2"}

Threads == {"t1", "t2"}

\* timedelta(hours=1), the clock counting hours
Timeout == 1

\* WebCrawler(): the n-th object constructed, not running, with no job
NewCrawler(n) ==
    [obj |-> n, is_running |-> FALSE, is_paused |-> FALSE, crawl_id |-> 0,
     db_save_enabled |-> TRUE]

\* SettingsManager(session_id, user_id, tier)
NewSettings(n) == [obj |-> n]

\* The entry get_or_create_crawler and get_session_settings store.
NewEntry(n, now) ==
    [crawler |-> NewCrawler(n), settings |-> NewSettings(n), last_accessed |-> now]

\* `with instances_lock:` can be entered as if no lock were there
LockFreeAlways == TRUE

\* `with instances_lock:` can be entered
LockFree == instances_lock = "free"

\* `now - instance_data['last_accessed'] >= timeout`: the entry at the limit
\* counted as idle
ExpiredAtTimeout(now, last_accessed) == now - last_accessed >= Timeout

\* `now - instance_data['last_accessed'] > timeout`
Expired(now, last_accessed) == now - last_accessed > Timeout

\* sessions_to_remove
SessionsToRemove(reg, now) ==
    {sid \in DOMAIN reg : Expired(now, reg[sid].last_accessed)}

\* The calls the second loop of cleanup_old_instances makes, in its order:
\* stop_crawl on the entry's crawler, then the deletion, whether or not
\* stop_crawl raised.
RECURSIVE CleanupCalls(_)
CleanupCalls(sids) ==
    IF sids = {} THEN <<>>
    ELSE LET sid == CHOOSE x \in sids : TRUE
         IN  <<[call |-> "stop_crawl", sid |-> sid], [call |-> "del", sid |-> sid]>>
                 \o CleanupCalls(sids \ {sid})

\* The registry after the deletions.
WithoutSessions(reg, sids) == [sid \in DOMAIN reg \ sids |-> reg[sid]]

IdleThread ==
    [pc |-> "idle", fn |-> "", sid |-> "", absent |-> FALSE, queued |-> FALSE,
     ret |-> [kind |-> "", obj |-> 0]]

NoSweep ==
    [made |-> FALSE, now |-> 0, before |-> <<>>, raised |-> {}, calls |-> <<>>]

(***************************************************************************)
(* Startup recovery and graceful shutdown (main.py), the persisted status  *)
(* (crawl_db) and the history endpoints that write it (history.py)         *)
(***************************************************************************)
\* get_or_create_crawler as one step: the registry after the call
GetOrCreateCrawler(reg, sid, n, now) ==
    IF sid \notin DOMAIN reg
    THEN Put(reg, sid, NewEntry(n, now))
    ELSE [reg EXCEPT ![sid].last_accessed = now]

\* crawl_db.set_crawl_status: the row's status column is written; no row, no
\* change
SetCrawlStatus(d, id, status) ==
    IF id \in DOMAIN d THEN [d EXCEPT ![id] = status] ELSE d

\* crawl_db.get_crashed_crawls: the crawls persisted with status running
GetCrashedCrawls(d) == {id \in DOMAIN d : d[id] = "running"}

\* A sweep that marks one crashed crawl and leaves the others
RecoverFirstOnly(d) ==
    IF GetCrashedCrawls(d) = {} THEN d
    ELSE SetCrawlStatus(d, CHOOSE id \in GetCrashedCrawls(d) : TRUE, "failed")

\* A sweep that marks the paused crawls as well as the crashed ones
RecoverSweepsPaused(d) ==
    [id \in DOMAIN d |-> IF d[id] \in {"running", "paused"} THEN "failed" ELSE d[id]]

\* recover_crashed_crawls: set_crawl_status(crawl['id'], 'failed') for each
\* crashed crawl
RecoverCrashedCrawls(d) ==
    [id \in DOMAIN d |-> IF id \in GetCrashedCrawls(d) THEN "failed" ELSE d[id]]

\* The instances graceful_shutdown saves:
\* crawler.is_running and crawler.crawl_id and crawler.db_save_enabled
ShutdownTargets(reg) ==
    {sid \in DOMAIN reg :
        /\ reg[sid].crawler.is_running
        /\ reg[sid].crawler.crawl_id # 0
        /\ reg[sid].crawler.db_save_enabled}

\* What saving one instance comes to: _save_batch_to_db(force=True), then
\* _save_queue_checkpoint(), then set_crawl_status(crawl_id, 'paused'); the
\* first call that raises ends the attempt in the except branch.
SaveOutcomes == {"saved", "flush_raises", "checkpoint_raises"}

\* The ids of the jobs of the instances in sids whose save ended in one of
\* outcomes.
JobsWith(reg, sids, outcome, outcomes) ==
    {reg[sid].crawler.crawl_id : sid \in {x \in sids : outcome[x] \in outcomes}}

\* A loop that writes paused for every instance it saves, whatever its flush
\* and its checkpoint came to
ShutdownPausesAll(d, reg, outcome) ==
    LET paused == JobsWith(reg, ShutdownTargets(reg), outcome, SaveOutcomes)
    IN  [id \in DOMAIN d |-> IF id \in paused THEN "paused" ELSE d[id]]

\* The persisted statuses after graceful_shutdown's loop.
ShutdownStatuses(d, reg, outcome) ==
    LET paused == JobsWith(reg, ShutdownTargets(reg), outcome, {"saved"})
    IN  [id \in DOMAIN d |-> IF id \in paused THEN "paused" ELSE d[id]]

NoSwept == [made |-> FALSE, before |-> <<>>]

NoShut ==
    [made |-> FALSE, before |-> <<>>, flushed |-> {}, checkpointed |-> {}, paused |-> {},
     raised |-> {}]

(***************************************************************************)
(* The history endpoints (history.py) over the persisted crawls (crawl_db) *)
(* and the session's crawler                                               *)
(***************************************************************************)
\* The browser sessions: a logged-in user, and a guest, whose session holds
\* user_id = None (written 0).
HistSessions == {"user", "guest"}

SessionUser(sid) == IF sid = "user" THEN 1 ELSE 0

\* The user_id column of crawl id: crawls of user 1, of user 2, of no user.
OwnerOf(id) == id % 3

StoredIds == 1..MaxStored

\* One more than is stored: an id that was never persisted.
RequestIds == 1..(MaxStored + 1)

\* A URL of job j, as the characters of its text.
JobUrl(j, c) == <<"/", c, j>>

\* crawl_db.load_crawled_urls(crawl_id): the pages persisted for the crawl
LoadCrawledUrls(id) ==
    IF id = 1 THEN <<[url |-> JobUrl("1", "a")], [url |-> JobUrl("1", "b")]>>
    ELSE <<[url |-> JobUrl("2", "a")]>>

\* crawl_db.load_crawl_links(crawl_id)
LoadCrawlLinks(id) ==
    IF id = 1
    THEN <<[source_url |-> JobUrl("1", "a"), target_url |-> JobUrl("1", "b")],
           [source_url |-> JobUrl("1", "b"), target_url |-> JobUrl("1", "a")]>>
    ELSE <<[source_url |-> JobUrl("2", "a"), target_url |-> JobUrl("2", "a")]>>

\* crawl_db.load_crawl_issues(crawl_id)
LoadCrawlIssues(id) ==
    IF id = 1 THEN <<[url |-> JobUrl("1", "b"), type |-> "missing_title"]>>
    ELSE <<[url |-> JobUrl("2", "a"), type |-> "thin_content"]>>

\* f"{link['source_url']}|{link['target_url']}"
LinkKey(link) == link.source_url \o <<"|">> \o link.target_url

\* links_set with the key of every link added and nothing cleared first
AddToLinksSet(links_set, links) ==
    links_set \cup {LinkKey(links[i]) : i \in 1..Len(links)}

\* links_set.clear(), then links_set.add(link_key) for each loaded link
RebuildLinksSet(links_set, links) ==
    {LinkKey(links[i]) : i \in 1..Len(links)}

\* What a crawler holds: the result list and counters, the link manager's
\* list and key set, the issue detector's list.
CrawlerHolding(urls, links, issues, base, running) ==
    [crawl_results |-> urls,
     stats |-> [crawled |-> Len(urls), discovered |-> Len(urls)],
     base_url |-> base,
     all_links |-> links,
     links_set |-> {LinkKey(links[i]) : i \in 1..Len(links)},
     detected_issues |-> issues,
     is_running |-> running]

\* WebCrawler(): nothing crawled
FreshCrawler == CrawlerHolding(<<>>, <<>>, <<>>, "", FALSE)

\* A crawler in the middle of a crawl of its own.
BusyCrawler ==
    CrawlerHolding(<<[url |-> JobUrl("0", "a")]>>,
                   <<[source_url |-> JobUrl("0", "a"), target_url |-> JobUrl("0", "b")]>>,
                   <<[url |-> JobUrl("0", "a"), type |-> "broken_link"]>>,
                   "job0", TRUE)

\* get_status(): the page, link and issue lists and the counters in one
\* atomic snapshot
GetStatus(c) ==
    [urls |-> c.crawl_results, links |-> c.all_links, issues |-> c.detected_issues,
     stats |-> c.stats]

\* The answer of get_crawl_by_id, and the two checks every endpoint makes on it:
\* `if not crawl` and `if user_id and crawl.get('user_id') != user_id`
AccessCode(rows, user_id, id) ==
    IF id \notin DOMAIN rows THEN 404
    ELSE IF user_id # 0 /\ rows[id].user_id # user_id THEN 403
    ELSE 200

\* The status a crawler gives when all it holds is what was persisted for
\* crawl id.
StatusOfLoaded(urls, links, issues) ==
    GetStatus(CrawlerHolding(urls, links, issues, "", FALSE))

NoLoad ==
    [pc |-> "idle", sid |-> "", id |-> 0, owner |-> 0,
     urls |-> <<>>, links |-> <<>>, issues |-> <<>>,
     before |-> GetStatus(FreshCrawler)]

NoAnswer ==
    [made |-> FALSE, op |-> "", sid |-> "", code |-> 0, existed |-> FALSE, owner |-> 0,
     changed |-> FALSE]

NoSnap ==
    [made |-> FALSE, status |-> GetStatus(FreshCrawler),
     previous |-> GetStatus(FreshCrawler), loaded |-> GetStatus(FreshCrawler)]

(***************************************************************************)
(* filter_issues_by_exclusion_patterns (issue_filters.py)                  *)
(***************************************************************************)
\* The characters of ".json" and ".html"
DotJson == <<".", "j", "s", "o", "n">>

DotHtml == <<".", "h", "t", "m", "l">>

\* The URLs of the stored issues, from the path on: /a.json, /a.html,
\* /a.html?q=.json, /b/a.json, /ab.html
IssueUrls ==
    { <<"/", "a">> \o DotJson,
      <<"/", "a">> \o DotHtml,
      <<"/", "a">> \o DotHtml \o <<"?", "q", "=">> \o DotJson,
      <<"/", "b", "/", "a">> \o DotJson,
      <<"/", "a", "b">> \o DotHtml }

\* The lines of the exclusion setting: *.json, /a., a comment, a blank line,
\* /b/*
PatternLines ==
    { <<"*">> \o DotJson,
      <<"/", "a", ".">>,
      <<"#", "/", "a">>,
      <<" ">>,
      <<"/", "b", "/", "*">> }

\* The positions of the characters of cs in text.
PositionsOf(text, cs) == {i \in 1..Len(text) : text[i] \in cs}

\* The text as it is, query included
IssueUrlText(url) == url

\* urlparse(url).path: the URL up to its query or fragment
IssuePath(url) ==
    LET cut == PositionsOf(url, {"?", "#"})
    IN  IF cut = {} THEN url
        ELSE SubSeq(url, 1, (CHOOSE i \in cut : \A j \in cut : i <= j) - 1)

\* str.strip()
Strip(text) ==
    LET inked == {i \in 1..Len(text) : text[i] # " "}
    IN  IF inked = {} THEN <<>>
        ELSE SubSeq(text, CHOOSE i \in inked : \A j \in inked : i <= j,
                          CHOOSE i \in inked : \A j \in inked : i >= j)

\* str.rstrip('*')
RECURSIVE RStripStar(_)
RStripStar(text) ==
    IF text # <<>> /\ text[Len(text)] = "*"
    THEN RStripStar(SubSeq(text, 1, Len(text) - 1))
    ELSE text

\* str.startswith
StartsWith(text, prefix) ==
    Len(prefix) <= Len(text) /\ SubSeq(text, 1, Len(prefix)) = prefix

\* fnmatch(name, pat): the whole name against the pattern, `*` any run of
\* characters, `?` any one character
RECURSIVE FnMatchFrom(_, _, _, _)
FnMatchFrom(name, i, pat, j) ==
    IF j > Len(pat) THEN i > Len(name)
    ELSE IF pat[j] = "*"
    THEN \/ FnMatchFrom(name, i, pat, j + 1)
         \/ i <= Len(name) /\ FnMatchFrom(name, i + 1, pat, j)
    ELSE /\ i <= Len(name)
         /\ pat[j] = "?" \/ pat[j] = name[i]
         /\ FnMatchFrom(name, i + 1, pat, j + 1)

FnMatch(name, pat) == FnMatchFrom(name, 1, pat, 1)

\* One pass of the pattern loop's body: does this pattern exclude the path
PatternExcludes(path, pattern) ==
    IF Strip(pattern) = <<>> \/ Strip(pattern)[1] = "#" THEN FALSE
    ELSE IF PositionsOf(pattern, {"*"}) # {} THEN FnMatch(path, pattern)
    ELSE path = pattern \/ StartsWith(path, RStripStar(pattern))

\* A loop that tests the first pattern only
ShouldExcludeByFirst(path, patterns, i) ==
    i <= Len(patterns) /\ PatternExcludes(path, patterns[i])

\* should_exclude after `for pattern in exclusion_patterns`, from pattern i on
RECURSIVE ShouldExclude(_, _, _)
ShouldExclude(path, patterns, i) ==
    IF i > Len(patterns) THEN FALSE
    ELSE IF PatternExcludes(path, patterns[i]) THEN TRUE
    ELSE ShouldExclude(path, patterns, i + 1)

\* filtered_issues after `for issue in issues`, from issue i on
RECURSIVE FilterFrom(_, _, _, _)
FilterFrom(issues, patterns, i, out) ==
    IF i > Len(issues) THEN out
    ELSE FilterFrom(issues, patterns, i + 1,
                    IF ShouldExclude(IssuePath(issues[i].url), patterns, 1)
                    THEN out ELSE Append(out, issues[i]))

FilterIssuesByExclusionPatterns(issues, patterns) ==
    IF patterns = <<>> THEN issues ELSE FilterFrom(issues, patterns, 1, <<>>)

NoFiltered == [made |-> FALSE, out |-> <<>>, again |-> FALSE, out2 |-> <<>>]

(***************************************************************************)
(* crawl_status with its three cursors and the full-refresh flag           *)
(* (blueprints/crawl.py), after load_crawl_into_session                    *)
(***************************************************************************)
\* request.args.get(name, type=int) of a parameter that was not passed: None
Absent == -1

\* session.get('force_full_refresh', False): the flag read and left in place
SessionGet(sess) == [value |-> sess.force_full_refresh, session |-> sess]

\* session.pop('force_full_refresh', False): the flag read and removed
SessionPop(sess) ==
    [value |-> sess.force_full_refresh,
     session |-> [sess EXCEPT !.force_full_refresh = FALSE]]

\* `if not force_full: if since is not None: list = list[since:]`
Sliced(list, force_full, since) ==
    IF ~force_full /\ since # Absent THEN SliceFrom(list, since) ELSE list

\* `if issues:` the issues the exclusion patterns of the settings leave
StatusIssues(issues, patterns) ==
    IF issues # <<>> THEN FilterIssuesByExclusionPatterns(issues, patterns) ELSE issues

\* crawl_status: the lists answered and the session as the request leaves it
CrawlStatusOf(c, sess, patterns, since) ==
    LET status_data == GetStatus(c)
        popped == SessionPop(sess)
        force_full == popped.value
    IN  [urls |-> Sliced(status_data.urls, force_full, since[1]),
         links |-> Sliced(status_data.links, force_full, since[2]),
         issues |-> StatusIssues(Sliced(status_data.issues, force_full, since[3]),
                                 patterns),
         session |-> popped.session]

\* load_crawl_into_session past its checks: what the session's crawler holds
\* when the request returns
LoadedInto(c, id) ==
    [c EXCEPT
        !.is_running = FALSE,
        !.crawl_results = LoadCrawledUrls(id),
        !.stats = [crawled |-> Len(LoadCrawledUrls(id)),
                   discovered |-> Len(LoadCrawledUrls(id))],
        !.base_url = "loaded",
        !.all_links = LoadCrawlLinks(id),
        !.links_set = RebuildLinksSet(c.links_set, LoadCrawlLinks(id)),
        !.detected_issues = LoadCrawlIssues(id)]

NoPolled ==
    [made |-> FALSE, sid |-> "", since |-> <<Absent, Absent, Absent>>, was_due |-> FALSE,
     urls |-> <<>>, links |-> <<>>, issues |-> <<>>]

(***************************************************************************)
(* ContentAnalyzer (core/content_analyzer.py). A text is the sequence of   *)
(* its characters.                                                         *)
(***************************************************************************)
\* str.lower() on a character
Lower(c) == IF c = "E" THEN "e" ELSE IF c = "A" THEN "a" ELSE c

\* str.lower() on a text, the result a sequence again
LowerText(t) == <<>> \o [i \in 1..Len(t) |-> Lower(t[i])]

\* The characters `\w` does not match, and those `\s` matches
NonWordChars == {" ", ".", "!", "?", "-"}

WhiteSpace == {" "}

\* The last character of the run of word characters that starts at i
WordEnd(t, i) ==
    CHOOSE j \in i..Len(t) :
        /\ \A k \in i..j : t[k] \notin NonWordChars
        /\ j = Len(t) \/ t[j + 1] \in NonWordChars

\* re.findall(r'\b\w+\b', text) on the characters lo..hi: the maximal runs
\* of word characters that start there, in their order
RECURSIVE FindWordsFrom(_, _, _)
FindWordsFrom(t, lo, hi) ==
    IF lo > hi THEN <<>>
    ELSE IF lo = hi
    THEN IF t[lo] \notin NonWordChars /\ (lo = 1 \/ t[lo - 1] \in NonWordChars)
         THEN <<SubSeq(t, lo, WordEnd(t, lo))>>
         ELSE <<>>
    ELSE LET mid == (lo + hi) \div 2
         IN  FindWordsFrom(t, lo, mid) \o FindWordsFrom(t, mid + 1, hi)

\* re.findall(r'\b\w+\b', text.lower())
FindWords(t) == FindWordsFrom(LowerText(t), 1, Len(t))

\* _count_words
CountWords(t) == Len(FindWords(t))

\* The word as it is, a final e kept
KeepFinalE(word) == word

\* `if word.endswith('e'): word = word[:-1]`
DropSilentE(word) ==
    IF word # <<>> /\ word[Len(word)] = "e" THEN SubSeq(word, 1, Len(word) - 1)
    ELSE word

Vowels == {"a", "e", "i", "o", "u", "y"}

\* The loop over the characters of word from i on: count goes up at every
\* vowel that follows no vowel
RECURSIVE VowelGroupsFrom(_, _, _, _)
VowelGroupsFrom(word, i, prev_is_vowel, count) ==
    IF i > Len(word) THEN count
    ELSE LET is_vowel == word[i] \in Vowels
         IN  VowelGroupsFrom(word, i + 1, is_vowel,
                             IF is_vowel /\ ~prev_is_vowel THEN count + 1 ELSE count)

\* _count_syllables_in_word
CountSyllablesInWord(word) ==
    LET w == LowerText(word)
    IN  IF Len(w) <= 3 THEN 1
        ELSE LET n == VowelGroupsFrom(DropSilentE(w), 1, FALSE, 0)
             IN  IF n > 1 THEN n ELSE 1

\* sum(self._count_syllables_in_word(word) for word in words) over the words
\* lo..hi
RECURSIVE SumSyllables(_, _, _)
SumSyllables(words, lo, hi) ==
    IF lo > hi THEN 0
    ELSE IF lo = hi THEN CountSyllablesInWord(words[lo])
    ELSE LET mid == (lo + hi) \div 2
         IN  SumSyllables(words, lo, mid) + SumSyllables(words, mid + 1, hi)

\* _count_syllables
CountSyllables(t) == LET words == FindWords(t) IN SumSyllables(words, 1, Len(words))

\* str.strip() leaves nothing
IsBlank(t) == \A i \in 1..Len(t) : t[i] \in WhiteSpace

SentenceEnds == {".", "!", "?"}

\* The last character of the run of . ! ? that starts at i
RunEnd(t, i) ==
    CHOOSE j \in i..Len(t) :
        /\ \A k \in i..j : t[k] \in SentenceEnds
        /\ j = Len(t) \/ t[j + 1] \notin SentenceEnds

\* The places where r'[.!?]+(?:\s+|$)' matches: the first characters of the
\* runs of . ! ? that white space or the end of the text follows. A run that
\* another character follows is part of the piece around it.
Separators(t) ==
    {i \in 1..Len(t) :
        /\ t[i] \in SentenceEnds
        /\ i = 1 \/ t[i - 1] \notin SentenceEnds
        /\ RunEnd(t, i) = Len(t) \/ t[RunEnd(t, i) + 1] \in WhiteSpace}

\* `if s.strip()` for the piece that ends before character i: going back
\* from i over white space, a character is met, and it is not the end of a
\* separator (white space after a separator belongs to it)
PieceHasInk(t, i) ==
    \E d \in 1..(i - 1) :
        /\ t[i - d] \notin WhiteSpace
        /\ \A k \in 1..(d - 1) : t[i - k] \in WhiteSpace
        /\ ~(/\ t[i - d] \in SentenceEnds
             /\ d > 1 \/ i = Len(t) + 1)

\* _count_sentences: len([s for s in re.split(r'[.!?]+(?:\s+|$)', text)
\* if s.strip()]), the pieces being those before each separator and the one
\* after the last
CountSentences(t) ==
    Cardinality({i \in Separators(t) \cup {Len(t) + 1} : PieceHasInk(t, i)})

\* _count_complex_words: the words of 3 syllables or more
CountComplexWords(t) ==
    LET words == FindWords(t)
    IN  Cardinality({i \in 1..Len(words) : CountSyllablesInWord(words[i]) >= 3})

\* Scores are kept in thousandths, quotients rounded down; round(x, 1) gives
\* tenths.
RoundToTenths(thousandths) == (thousandths + 50) \div 100

\* max(0, min(100, score)) left out: the score as computed
Unclamped(thousandths) == thousandths

\* max(0, min(100, score))
Clamped(thousandths) ==
    IF thousandths < 0 THEN 0 ELSE IF thousandths > 100000 THEN 100000 ELSE thousandths

\* _calculate_flesch_kincaid, in tenths
FleschReadingEase(total_words, total_sentences, total_syllables) ==
    IF total_words = 0 \/ total_sentences = 0 THEN 0
    ELSE RoundToTenths(Clamped(206835 - ((1015 * total_words) \div total_sentences)
                                      - ((84600 * total_syllables) \div total_words)))

\* _calculate_flesch_kincaid_grade, in tenths
FleschKincaidGrade(total_words, total_sentences, total_syllables) ==
    IF total_words = 0 \/ total_sentences = 0 THEN 0
    ELSE LET grade == ((390 * total_words) \div total_sentences)
                      + ((11800 * total_syllables) \div total_words) - 15590
         IN  RoundToTenths(IF grade < 0 THEN 0 ELSE grade)

\* _calculate_gunning_fog, in tenths
GunningFog(t, total_words, total_sentences) ==
    IF total_words = 0 \/ total_sentences = 0 THEN 0
    ELSE RoundToTenths(((400 * total_words) \div total_sentences)
                       + ((40000 * CountComplexWords(t)) \div total_words))

\* The words _extract_keywords keeps, as a set: no stop word of the
\* analyzer is longer than 2 characters over the letters of the texts
Keywords(t) ==
    LET words == FindWords(t)
    IN  {words[i] : i \in {k \in 1..Len(words) : Len(words[k]) > 2}}

\* `word_count < 300`
ThinContentWords == 300

\* _get_empty_result
EmptyResult ==
    [made |-> TRUE, word_count |-> 0, sentence_count |-> 0, readability_score |-> 0,
     flesch_kincaid_grade |-> 0, gunning_fog_index |-> 0, reading_time_minutes |-> 0,
     keywords |-> {}, is_thin_content |-> TRUE]

\* analyze_content
AnalyzeContent(t) ==
    IF t = <<>> \/ IsBlank(t) THEN EmptyResult
    ELSE LET word_count == CountWords(t)
             sentence_count == CountSentences(t)
             syllable_count == CountSyllables(t)
         IN  IF word_count = 0 \/ sentence_count = 0 THEN EmptyResult
             ELSE [made |-> TRUE,
                   word_count |-> word_count,
                   sentence_count |-> sentence_count,
                   readability_score |->
                       FleschReadingEase(word_count, sentence_count, syllable_count),
                   flesch_kincaid_grade |->
                       FleschKincaidGrade(word_count, sentence_count, syllable_count),
                   gunning_fog_index |-> GunningFog(t, word_count, sentence_count),
                   reading_time_minutes |-> (word_count + 199) \div 200,
                   keywords |-> Keywords(t),
                   is_thin_content |-> word_count < ThinContentWords]

NoAnalysis == [made |-> FALSE]

(***************************************************************************)
(* start_crawl and the guest limit (blueprints/crawl.py)                   *)
(***************************************************************************)
\* `if crawls_from_ip >= 3`
GuestLimit == 3

\* `tier == 'guest' and not LOCAL_MODE and crawls_from_ip >= 3` for a guest
LimitReached(local, crawls_from_ip) == ~local /\ crawls_from_ip >= GuestLimit

NoStart == [pc |-> "idle", made |-> FALSE, at_arrival |-> 0, crawls_from_ip |-> 0]

(***************************************************************************)
(* The custom-robots endpoints and their managers (blueprints/robots.py)   *)
(***************************************************************************)
Browsers == {"b1", "b2"}

\* session.get('session_id', 'default'): the cookie's id, "" standing for a
\* session that has none yet
SessionKey(session_id) == IF session_id = "" THEN "default" ELSE session_id

\* str(uuid.uuid4()) for browser b: an id no other session has
NewSessionId(b) == "sid-" \o b

\* The override texts a browser saves: disallow /a for all, allow /a for all
OverrideTexts ==
    { <<Line("user-agent", <<"*">>), Line("disallow", <<"/", "a">>)>>,
      <<Line("user-agent", <<"*">>), Line("allow", <<"/", "a">>)>> }

NoRequest ==
    [pc |-> "idle", b |-> "", op |-> "", key |-> "", sd |-> "", text |-> <<>>,
     obj |-> 0, before |-> <<>>]

NoReply ==
    [made |-> FALSE, b |-> "", op |-> "", sd |-> "", found |-> FALSE, content |-> <<>>,
     subdomains |-> {}, own |-> <<>>, stable |-> <<>>]

(***************************************************************************)
(* The state each object is constructed in. A specification starts the     *)
(* objects it is about in their bounded inputs and leaves the others as    *)
(* constructed.                                                            *)
(***************************************************************************)
NoCheck == [asked |-> FALSE, path |-> <<>>, allowed |-> TRUE]

NoCall == [op |-> "none", resp |-> "", ok |-> TRUE]

RulesIdle == rules = NewUserAgentRules(<<"*">>) /\ check = NoCheck

ParseIdle == content = <<>> /\ parser = NewParser /\ last = NoCall

CustomIdle == mgr = NewManager /\ resaved = {}

RegIdle ==
    /\ crawler_instances = <<>>
    /\ instances_lock = "free"
    /\ threads = [t \in Threads |-> IdleThread]
    /\ clock = 0
    /\ next_obj = 1
    /\ pairs = [sid \in Sessions |-> {}]
    /\ cleaner = [pc |-> "sleep", now |-> 0]
    /\ sweep = NoSweep

LifeIdle ==
    /\ proc = "down"
    /\ db = <<>>
    /\ swept = NoSwept
    /\ shut = NoShut

HistIdle ==
    /\ crawls = <<>>
    /\ session = [sid \in HistSessions |->
                     [user_id |-> SessionUser(sid), force_full_refresh |-> FALSE]]
    /\ crawlers = [sid \in HistSessions |-> FreshCrawler]
    /\ load = NoLoad
    /\ answer = NoAnswer
    /\ snap = NoSnap

FilterIdle ==
    /\ detected_issues = <<>>
    /\ exclusion_patterns = <<>>
    /\ filtered = NoFiltered

RefreshIdle == due = {} /\ polled = NoPolled

OverrideIdle ==
    /\ cookie = [b \in Browsers |-> ""]
    /\ managers = <<>>
    /\ heap = <<>>
    /\ reqs = [t \in Threads |-> NoRequest]
    /\ reply = NoReply
    /\ kept = [b \in Browsers |-> <<>>]
    /\ handed = <<>>

GuestIdle ==
    /\ local_mode = FALSE
    /\ guest_rows = 0
    /\ started = 0
    /\ starts = [t \in Threads |-> NoStart]
    /\ last_start = NoStart

AnalyzeIdle == doc = <<>> /\ analysis = NoAnalysis

RestIdle == RefreshIdle /\ OverrideIdle /\ GuestIdle /\ AnalyzeIdle

PollIdle ==
    /\ crawl_results = <<>>
    /\ force_full_refresh = FALSE
    /\ url_cursor = 0
    /\ received = <<>>
    /\ poll = NoPoll

(***************************************************************************)
(* SpecRules: one UserAgentRules object, built by add_directive and asked  *)
(* by is_allowed.                                                          *)
(***************************************************************************)
RulesInit ==
    /\ rules = NewUserAgentRules(<<"*">>)
    /\ check = NoCheck

AddDirective(path, allow) ==
    /\ Len(rules.directives) < MaxDirectives
    /\ rules' = AddDirectiveTo(rules, path, allow)
    /\ check' = NoCheck
    /\ UNCHANGED notRules

IsAllowedCall(path) ==
    /\ check' = [asked |-> TRUE, path |-> path,
                 allowed |-> RulesIsAllowed(rules.directives, path)]
    /\ UNCHANGED <<rules, notRules>>

NextRules ==
    \/ \E p \in RulePaths, a \in BOOLEAN : AddDirective(p, a)
    \/ \E p \in TestPaths : IsAllowedCall(p)

InitRules == RulesInit /\ ParseIdle /\ CustomIdle /\ PollIdle /\ RegIdle /\ LifeIdle /\ HistIdle /\ FilterIdle /\ RestIdle

SpecRules == InitRules /\ [][NextRules]_vars

\* The directives of ds in the order f gives them.
Permute(ds, f) == [i \in 1..Len(ds) |-> ds[f[i]]]

Orderings(n) ==
    {f \in [1..n -> 1..n] : \A i, j \in 1..n : f[i] = f[j] => i = j}

\* The directives of ds that match path, and those of them with the longest
\* pattern string.
MatchingIn(ds, path) == {i \in 1..Len(ds) : Matches(ds[i], path)}

LongestIn(ds, path) ==
    {i \in MatchingIn(ds, path) :
        \A j \in MatchingIn(ds, path) : Len(ds[j].path) <= Len(ds[i].path)}

\* C1: is_allowed returns the flag of the matching directive with the longest
\* pattern, in whatever order the directives were declared (no permutation of
\* the directives changes the verdict), and allows a path no directive matches.
C1_LongestWinsAnyOrder ==
    check.asked =>
        LET ds == rules.directives
            p == check.path
        IN  /\ MatchingIn(ds, p) = {} => check.allowed
            /\ \A i \in LongestIn(ds, p) : check.allowed = ds[i].allow
            /\ \A f \in Orderings(Len(ds)) :
                   RulesIsAllowed(Permute(ds, f), p) = check.allowed

\* The same with the ties left out: where one matching directive is strictly
\* longest, it decides.
C1_UniqueLongestWins ==
    check.asked =>
        LET ds == rules.directives
            p == check.path
        IN  /\ MatchingIn(ds, p) = {} => check.allowed
            /\ \A i \in LongestIn(ds, p) :
                   Cardinality(LongestIn(ds, p)) = 1 => check.allowed = ds[i].allow

\* The directives of ds declared with an empty path, and those declared with
\* another path that match path.
EmptyIn(ds) == {i \in 1..Len(ds) : ds[i].path = <<>>}

NonEmptyMatchingIn(ds, path) == {i \in MatchingIn(ds, path) : ds[i].path # <<>>}

\* C30: a directive with an empty path matches every path, with a pattern of
\* length 0. In a rule set that has one, a path no other directive matches
\* gets the verdict of an empty directive (the first declared), and a path
\* another directive matches gets the verdict of a longest of those; a rule
\* set whose only directive is an empty Disallow denies every path.
C30_EmptyPathMatchesAllAndIsLast ==
    check.asked =>
        LET ds == rules.directives
            p == check.path
            first == CHOOSE i \in EmptyIn(ds) : \A j \in EmptyIn(ds) : i <= j
        IN  /\ \A i \in EmptyIn(ds) : Matches(ds[i], p) /\ Len(ds[i].path) = 0
            /\ (EmptyIn(ds) # {} /\ NonEmptyMatchingIn(ds, p) = {}) =>
                   check.allowed = ds[first].allow
            /\ NonEmptyMatchingIn(ds, p) # {} =>
                   \E i \in NonEmptyMatchingIn(ds, p) :
                       /\ \A j \in MatchingIn(ds, p) : Len(ds[j].path) <= Len(ds[i].path)
                       /\ check.allowed = ds[i].allow
            /\ ds = <<RobotsDirective(<<>>, FALSE)>> => ~check.allowed

\* An empty Disallow beside an Allow of another path, asked about a path the
\* Allow does not match: the path is denied.
C30_Witness ==
    /\ check.asked
    /\ ~check.allowed
    /\ Len(rules.directives) = 2
    /\ \E i \in EmptyIn(rules.directives) : ~rules.directives[i].allow
    /\ \E i \in 1..2 :
           /\ rules.directives[i].allow
           /\ rules.directives[i].path # <<>>
           /\ ~Matches(rules.directives[i], check.path)

(***************************************************************************)
(* SpecMatch: a rule set of directives over patterns with `*` and `$` in   *)
(* every position, asked about paths that hold those characters.           *)
(***************************************************************************)
\* /a, /a$, /*b, /a$b, the empty pattern, /a*
MatchPatterns ==
    { <<"/", "a">>, <<"/", "a", "$">>, <<"/", "*", "b">>, <<"/", "a", "$", "b">>,
      <<>>, <<"/", "a", "*">> }

\* /a, /ab, /a$b, /b, /a/b
MatchPaths ==
    { <<"/", "a">>, <<"/", "a", "b">>, <<"/", "a", "$", "b">>, <<"/", "b">>,
      <<"/", "a", "/", "b">> }

NextMatch ==
    \/ \E p \in MatchPatterns :
           Len(rules.directives) < MaxMatchDirectives /\ AddDirective(p, FALSE)
    \/ \E p \in MatchPaths : IsAllowedCall(p)

InitMatch ==
    RulesInit /\ ParseIdle /\ CustomIdle /\ PollIdle /\ RegIdle /\ LifeIdle /\ HistIdle
        /\ FilterIdle /\ RestIdle

SpecMatch == InitMatch /\ [][NextMatch]_vars

\* A pattern against a path from the start of the path: `*` is any run of
\* characters, every other character is itself; at the end of the pattern
\* the path must end when anchored, and may go on otherwise.
RECURSIVE GlobFrom(_, _, _, _, _)
GlobFrom(pat, i, path, j, anchored) ==
    IF i > Len(pat) THEN ~anchored \/ j = Len(path) + 1
    ELSE IF pat[i] = "*"
    THEN \E k \in j..(Len(path) + 1) : GlobFrom(pat, i + 1, path, k, anchored)
    ELSE /\ j <= Len(path)
         /\ path[j] = pat[i]
         /\ GlobFrom(pat, i + 1, path, j + 1, anchored)

\* A trailing `$` anchors the end and is no character of the pattern.
PatternMatchesFromStart(pat, path) ==
    IF pat # <<>> /\ pat[Len(pat)] = "$"
    THEN GlobFrom(SubSeq(pat, 1, Len(pat) - 1), 1, path, 1, TRUE)
    ELSE GlobFrom(pat, 1, path, 1, FALSE)

\* C16: a directive matches a path exactly when its pattern matches from the
\* start of the path, `*` standing for any run of characters and a trailing
\* `$` for the end of the path; a pattern that ends in neither matches every
\* path that begins with a match of it.
C16_MatchesIsAnchoredGlob ==
    \A i \in 1..Len(rules.directives), path \in MatchPaths :
        Matches(rules.directives[i], path)
            = PatternMatchesFromStart(rules.directives[i].path, path)

(***************************************************************************)
(* SpecParse: one RobotsParser object under parse and fetch_and_parse.     *)
(***************************************************************************)
Agents == {<<"*">>, <<"b">>}

\* The lines texts are made of.
RobotsLines ==
    {Line("user-agent", ua) : ua \in Agents}
    \cup {Line(d, <<"/", "a">>) : d \in {"disallow", "allow"}}

RECURSIVE TextsOfLen(_, _)
TextsOfLen(lines, n) ==
    IF n = 0 THEN {<<>>}
    ELSE {Append(t, l) : t \in TextsOfLen(lines, n - 1), l \in lines}

TextsUpTo(lines, n) == UNION {TextsOfLen(lines, k) : k \in 0..n}

TestUrls ==
    {Url("site", p, q) : p \in TestPaths, q \in {<<>>, <<"a">>}}

ParseInit ==
    /\ content \in TextsUpTo(RobotsLines, MaxLines)
    /\ parser = NewParser
    /\ last = NoCall

\* The fetch errors parse_errors holds (those of no line).
FetchErrors(p) == {i \in 1..Len(p.parse_errors) : p.parse_errors[i].line = 0}

DoParse ==
    /\ parser' = Parse(parser, content)
    /\ last' = [op |-> "parse", resp |-> "", ok |-> TRUE]
    /\ UNCHANGED <<content, notParse>>

DoFetch(resp) ==
    /\ resp \in {"500", "timeout", "neterror"} =>
           Cardinality(FetchErrors(parser)) < MaxFetchErrors
    /\ LET r == FetchAndParse(parser, resp, content)
       IN  /\ parser' = r.parser
           /\ last' = [op |-> "fetch", resp |-> resp, ok |-> r.ok]
    /\ UNCHANGED <<content, notParse>>

NextParse ==
    \/ DoParse
    \/ \E resp \in Responses : DoFetch(resp)

InitParse == ParseInit /\ RulesIdle /\ CustomIdle /\ PollIdle /\ RegIdle /\ LifeIdle /\ HistIdle /\ FilterIdle /\ RestIdle

SpecParse == InitParse /\ [][NextParse]_vars

\* The parser holds the parse of `content`: parse, or a fetch answered 200,
\* was the last call.
HoldsParseOfContent ==
    \/ last.op = "parse"
    \/ last.op = "fetch" /\ last.resp = "200"

IsUaLine(l) == l.k = "pair" /\ l.d = "user-agent"

IsRuleLine(l) == l.k = "pair" /\ l.d \in {"disallow", "allow"}

\* The last user-agent line before line i of text (0: none).
LastUaBefore(text, i) ==
    IF \E j \in 1..(i - 1) : IsUaLine(text[j])
    THEN CHOOSE j \in 1..(i - 1) :
             /\ IsUaLine(text[j])
             /\ \A m \in (j + 1)..(i - 1) : ~IsUaLine(text[m])
    ELSE 0

\* The group line i of text belongs to: the agents of the run of consecutive
\* user-agent lines that ends at the last user-agent line before i.
GroupOf(text, i) ==
    LET j == LastUaBefore(text, i)
    IN  {text[m].v : m \in {k \in 1..j : \A x \in k..j : IsUaLine(text[x])}}

\* The directives the allow/disallow lines of text give agent ua, each line
\* attached to every agent of its group.
GroupDirectives(text, ua) ==
    {RobotsDirective(text[i].v, text[i].d = "allow") :
        i \in {k \in 1..Len(text) : IsRuleLine(text[k]) /\ ua \in GroupOf(text, k)}}

\* The directives a rule set holds, as a set.
DirectiveSet(r) == {r.directives[i] : i \in 1..Len(r.directives)}

\* C2: consecutive user-agent lines form one group and every following
\* allow/disallow line is attached to all agents of that group, also when an
\* agent named in an earlier group is named again; a user-agent line after the
\* group's directives starts a new group.
C2_DirectivesAttachToWholeGroup ==
    HoldsParseOfContent =>
        \A ua \in DOMAIN parser.user_agent_rules :
            DirectiveSet(parser.user_agent_rules[ua]) = GroupDirectives(content, ua)

\* The same for the texts that name no agent in two groups: there the code
\* groups as claimed.
C2_HoldsWithoutRepeatedAgent ==
    (/\ HoldsParseOfContent
     /\ \A i, j \in 1..Len(content) :
            (IsUaLine(content[i]) /\ IsUaLine(content[j]) /\ i < j
             /\ content[i].v = content[j].v)
                => \A m \in i..j : IsUaLine(content[m]))
        => \A ua \in DOMAIN parser.user_agent_rules :
               DirectiveSet(parser.user_agent_rules[ua]) = GroupDirectives(content, ua)

\* C3: a fetch answered 404 returns success and leaves the parser allowing
\* every URL for every agent, with no parse error, whatever it held before.
C3_NotFoundAllowsAll ==
    (last.op = "fetch" /\ last.resp = "404") =>
        /\ last.ok
        /\ parser.parse_errors = <<>>
        /\ \A url \in TestUrls, ua \in Agents : ParserIsAllowed(parser, url, ua)

(***************************************************************************)
(* SpecSelect: texts parsed and asked about by several agents.             *)
(* SpecFetch: a parser fetching, with every outcome of the request, over   *)
(* what earlier parses and fetches left.                                   *)
(***************************************************************************)
SelectInit ==
    /\ content \in TextsUpTo(RobotsLines, MaxSelectLines)
    /\ parser = NewParser
    /\ last = NoCall

NextSelect == DoParse

InitSelect ==
    SelectInit /\ RulesIdle /\ CustomIdle /\ PollIdle /\ RegIdle /\ LifeIdle /\ HistIdle
        /\ FilterIdle /\ RestIdle

SpecSelect == InitSelect /\ [][NextSelect]_vars

\* SpecTest: texts parsed, then asked by test_path about paths with and
\* without a leading slash.
\* Two agents; Disallow /a, Allow /a/b, Allow /a, and a Disallow of nothing
TestLines ==
    {Line("user-agent", ua) : ua \in Agents}
    \cup { Line("disallow", <<"/", "a">>), Line("allow", <<"/", "a", "/", "b">>),
           Line("allow", <<"/", "a">>), Line("disallow", <<>>) }

\* /, /a, /b, /a/b, and a without its slash
AskedPaths == TestPaths \cup {<<"a">>}

TestInit ==
    /\ content \in TextsUpTo(TestLines, MaxTestLines)
    /\ parser = NewParser
    /\ last = NoCall

\* parser.test_path(path, ua) on a parser that has parsed
DoTestPath(path, ua) ==
    /\ last.op # "none"
    /\ last' = [op |-> "test_path", resp |-> "", ok |-> TRUE, path |-> path, ua |-> ua,
                result |-> ParserTestPath(parser, path, ua)]
    /\ UNCHANGED <<content, parser, notParse>>

NextTest ==
    \/ DoParse
    \/ \E path \in AskedPaths, ua \in Agents \cup {<<"c">>} : DoTestPath(path, ua)

InitTest ==
    TestInit /\ RulesIdle /\ CustomIdle /\ PollIdle /\ RegIdle /\ LifeIdle /\ HistIdle
        /\ FilterIdle /\ RestIdle

SpecTest == InitTest /\ [][NextTest]_vars

\* The directives of the rule set the parser selects for ua: the one named
\* ua, else the one named `*`, else none.
SelectedDirectives(p, ua) ==
    IF ua \in DOMAIN p.user_agent_rules THEN p.user_agent_rules[ua].directives
    ELSE IF <<"*">> \in DOMAIN p.user_agent_rules
    THEN p.user_agent_rules[<<"*">>].directives
    ELSE <<>>

\* C28: for a path that starts with `/`, the allowed field of test_path is
\* what is_allowed answers for a URL with that path and no query, and
\* matched_rule is None exactly when no directive of the selected rule set
\* matches the path.
C28_TestPathAgreesWithIsAllowed ==
    (last.op = "test_path" /\ last.path[1] = "/") =>
        LET ds == SelectedDirectives(parser, last.ua)
        IN  /\ last.result.allowed
                   = ParserIsAllowed(parser, Url("site", last.path, <<>>), last.ua)
            /\ last.result.matched_rule = <<>>
                   <=> \A i \in 1..Len(ds) : ~Matches(ds[i], last.path)

\* test_path asked about a path two directives of different flags match: the
\* rule it reports is the longer one, declared second, and is_allowed gives
\* its flag.
C28_Witness ==
    /\ last.op = "test_path"
    /\ last.path[1] = "/"
    /\ last.result.matched_rule # <<>>
    /\ LET ds == SelectedDirectives(parser, last.ua)
       IN  /\ Len(ds) >= 2
           /\ Matches(ds[1], last.path)
           /\ ds[1].allow # last.result.allowed
           /\ last.result.matched_rule = <<ds[2]>>

FetchInit ==
    /\ content \in TextsUpTo(RobotsLines, MaxFetchLines)
    /\ parser = NewParser
    /\ last = NoCall

NextFetch ==
    \/ DoParse
    \/ \E resp \in Responses : DoFetch(resp)

InitFetch ==
    FetchInit /\ RulesIdle /\ CustomIdle /\ PollIdle /\ RegIdle /\ LifeIdle /\ HistIdle
        /\ FilterIdle /\ RestIdle

SpecFetch == InitFetch /\ [][NextFetch]_vars

\* The agents a caller asks for: those of the texts, and one no text names.
AskedAgents == Agents \cup {<<"c">>}

\* The rule sets whose user-agent string is ua, when the parser has one.
RuleSetsNamed(p, ua) ==
    {r \in {p.user_agent_rules[k] : k \in DOMAIN p.user_agent_rules} : r.user_agent = ua}

\* The verdict of a rule set for a URL's path and query.
VerdictOf(r, url) == RulesIsAllowed(r.directives, UrlPath(url))

\* C15: is_allowed and get_rules_for_user_agent use the rule set named
\* exactly as the agent when the parser has one, else the rule set named `*`
\* when it has one, else none: every URL is allowed.
C15_ExactThenWildcardThenAllow ==
    \A ua \in AskedAgents :
        LET exact == RuleSetsNamed(parser, ua)
            star == RuleSetsNamed(parser, <<"*">>)
            got == GetRulesForUserAgent(parser, ua)
        IN  /\ exact # {} =>
                   /\ got.found /\ got.rules \in exact
                   /\ \A url \in TestUrls, r \in exact :
                          ParserIsAllowed(parser, url, ua) = VerdictOf(r, url)
            /\ (exact = {} /\ star # {}) =>
                   /\ got.found /\ got.rules \in star
                   /\ \A url \in TestUrls, r \in star :
                          ParserIsAllowed(parser, url, ua) = VerdictOf(r, url)
            /\ (exact = {} /\ star = {}) =>
                   /\ ~got.found
                   /\ \A url \in TestUrls : ParserIsAllowed(parser, url, ua)

\* A parser whose rule sets for b and for * disagree on a URL: b gets its
\* own verdict and the unnamed agent c gets that of *.
C15_Witness ==
    /\ <<"b">> \in DOMAIN parser.user_agent_rules
    /\ <<"*">> \in DOMAIN parser.user_agent_rules
    /\ \E url \in TestUrls :
           /\ VerdictOf(parser.user_agent_rules[<<"b">>], url)
                  # VerdictOf(parser.user_agent_rules[<<"*">>], url)
           /\ ParserIsAllowed(parser, url, <<"c">>)
                  # ParserIsAllowed(parser, url, <<"b">>)

\* C19: fetch_and_parse returns success exactly when the response status is
\* 200 or 404; after every other status, a timeout or a network failure it
\* has returned failure and the last entry of parse_errors is the error of
\* that fetch.
C19_SuccessOn200Or404 ==
    last.op = "fetch" =>
        /\ last.ok = (last.resp \in {"200", "404"})
        /\ ~last.ok =>
               /\ parser.parse_errors # <<>>
               /\ parser.parse_errors[Len(parser.parse_errors)].line = 0

\* A failed fetch on a parser that holds parsed rules.
C19_Witness ==
    /\ last.op = "fetch"
    /\ last.resp \in {"500", "timeout", "neterror"}
    /\ ~last.ok
    /\ parser.user_agent_rules # <<>>

(***************************************************************************)
(* SpecGroup: texts with crawl-delay, request-rate and sitemap lines, well *)
(* formed and not, before and after the user-agent lines.                  *)
(***************************************************************************)
\* user-agent *, user-agent b, disallow /a, crawl-delay 1.5, crawl-delay x,
\* request-rate 1/5, request-rate 5, request-rate 1/x, sitemap s
GroupLines ==
    {Line("user-agent", ua) : ua \in Agents}
    \cup {Line("disallow", <<"/", "a">>)}
    \cup {Line("crawl-delay", v) : v \in {<<"1", ".", "5">>, <<"x">>}}
    \cup {Line("request-rate", v) : v \in {<<"1", "/", "5">>, <<"5">>, <<"1", "/", "x">>}}
    \cup {Line("sitemap", <<"s">>)}

GroupInit ==
    /\ content \in TextsUpTo(GroupLines, MaxGroupLines)
    /\ parser = NewParser
    /\ last = NoCall

NextGroup == DoParse

InitGroup ==
    GroupInit /\ RulesIdle /\ CustomIdle /\ PollIdle /\ RegIdle /\ LifeIdle /\ HistIdle
        /\ FilterIdle /\ RestIdle

SpecGroup == InitGroup /\ [][NextGroup]_vars

\* The text without its line i.
WithoutLine(text, i) == SubSeq(text, 1, i - 1) \o SubSeq(text, i + 1, Len(text))

\* The allow/disallow lines of text that no user-agent line precedes.
OrphanLines(text) ==
    {i \in 1..Len(text) : IsRuleLine(text[i]) /\ LastUaBefore(text, i) = 0}

\* The parse errors that name line i.
ErrorsOfLine(p, i) == {k \in 1..Len(p.parse_errors) : p.parse_errors[k].line = i}

\* C17: an allow or disallow line met before any user-agent line records one
\* parse error, of that line, and parsing goes on: the rule sets and the
\* sitemaps are those of the text without the line.
C17_OrphanDirectiveIsOneError ==
    last.op = "parse" =>
        \A i \in OrphanLines(content) :
            LET rest == Parse(NewParser, WithoutLine(content, i))
            IN  /\ Cardinality(ErrorsOfLine(parser, i)) = 1
                /\ \A k \in ErrorsOfLine(parser, i) :
                       parser.parse_errors[k].msg = "Directive without user-agent"
                /\ parser.user_agent_rules = rest.user_agent_rules
                /\ parser.sitemaps = rest.sitemaps

\* A text parsed whose first line is a directive of no agent and whose later
\* lines gave an agent a directive.
C17_Witness ==
    /\ last.op = "parse"
    /\ 1 \in OrphanLines(content)
    /\ Len(parser.parse_errors) = 1
    /\ \E ua \in DOMAIN parser.user_agent_rules :
           parser.user_agent_rules[ua].directives # <<>>

\* A request-rate value of the form N/M with integers N and M.
IsRate(v) ==
    \E s \in 1..Len(v) :
        /\ v[s] = "/"
        /\ IsInt(SubSeq(v, 1, s - 1))
        /\ IsInt(SubSeq(v, s + 1, Len(v)))

IsDelayLine(l) == l.k = "pair" /\ l.d = "crawl-delay"

IsRateLine(l) == l.k = "pair" /\ l.d = "request-rate"

\* The crawl-delay and request-rate lines of text whose value is malformed.
MalformedLines(text) ==
    {i \in 1..Len(text) :
        \/ IsDelayLine(text[i]) /\ ~IsFloat(text[i].v)
        \/ IsRateLine(text[i]) /\ ~IsRate(text[i].v)}

\* The last well-formed crawl-delay (request-rate) line of text whose group
\* holds agent ua (0: none).
LastDelayLine(text, ua) ==
    LET S == {i \in 1..Len(text) :
                 IsDelayLine(text[i]) /\ IsFloat(text[i].v) /\ ua \in GroupOf(text, i)}
    IN  IF S = {} THEN 0 ELSE CHOOSE i \in S : \A j \in S : j <= i

LastRateLine(text, ua) ==
    LET S == {i \in 1..Len(text) :
                 IsRateLine(text[i]) /\ IsRate(text[i].v) /\ ua \in GroupOf(text, i)}
    IN  IF S = {} THEN 0 ELSE CHOOSE i \in S : \A j \in S : j <= i

\* The crawl-delay and the request-rate the lines of text give agent ua.
GroupCrawlDelay(text, ua) ==
    LET i == LastDelayLine(text, ua)
    IN  IF i = 0 THEN NewUserAgentRules(ua).crawl_delay
        ELSE [set |-> TRUE, value |-> text[i].v]

GroupRequestRate(text, ua) ==
    LET i == LastRateLine(text, ua)
    IN  IF i = 0 THEN NewUserAgentRules(ua).request_rate
        ELSE LET v == text[i].v
                 s == CHOOSE x \in 1..Len(v) : v[x] = "/"
             IN  [set |-> TRUE, requests |-> SubSeq(v, 1, s - 1),
                  seconds |-> SubSeq(v, s + 1, Len(v))]

MalformedAreErrorsAndIgnored ==
    \A i \in MalformedLines(content) :
        /\ ErrorsOfLine(parser, i) # {}
        /\ parser.user_agent_rules
               = Parse(NewParser, WithoutLine(content, i)).user_agent_rules

WellFormedSetOnGroup ==
    \A ua \in DOMAIN parser.user_agent_rules :
        /\ parser.user_agent_rules[ua].crawl_delay = GroupCrawlDelay(content, ua)
        /\ parser.user_agent_rules[ua].request_rate = GroupRequestRate(content, ua)

\* C18: a crawl-delay value that is not a number, and a request-rate value
\* that is not N/M with integers N and M, is recorded as a parse error of its
\* line and changes no rule set; a well-formed value is set on every agent of
\* the group its line belongs to.
C18_MalformedIsErrorWellFormedIsSet ==
    last.op = "parse" => (MalformedAreErrorsAndIgnored /\ WellFormedSetOnGroup)

\* The same for the texts whose request-rate values all split at `/` into
\* two parts: there the code records and sets as claimed.
C18_HoldsWhenRateHasTwoParts ==
    (/\ last.op = "parse"
     /\ \A i \in 1..Len(content) :
            IsRateLine(content[i]) => Cardinality(SlashAt(content[i].v)) = 1)
        => (MalformedAreErrorsAndIgnored /\ WellFormedSetOnGroup)

(***************************************************************************)
(* SpecCustom: one CustomRobotsManager object under its methods.           *)
(***************************************************************************)
Subdomains == {"a.site", "b.site"}

CustomUrls ==
    {Url(n, p, <<>>) : n \in Subdomains \cup {"c.site"}, p \in TestPaths}

\* The lines the override texts are made of.
CustomLines ==
    {Line("user-agent", <<"*">>)}
    \cup {Line(d, <<"/", "a">>) : d \in {"disallow", "allow"}}

CustomInit == mgr = NewManager /\ resaved = {}

AddSubdomain(subdomain, text) ==
    /\ mgr' = AddSubdomainTo(mgr, subdomain, text)
    /\ resaved' = IF subdomain \in DOMAIN mgr.custom_robots
                     /\ mgr.custom_robots[subdomain] # text
                  THEN resaved \cup {subdomain}
                  ELSE resaved
    /\ UNCHANGED notCustom

RemoveSubdomain(subdomain) ==
    /\ mgr' = RemoveSubdomainFrom(mgr, subdomain)
    /\ resaved' = resaved \ {subdomain}
    /\ UNCHANGED notCustom

\* from_dict(to_dict()): the overrides stored and loaded again
Reload ==
    /\ mgr' = FromDict(ToDict(mgr))
    /\ UNCHANGED <<resaved, notCustom>>

\* CustomRobotsManager.clear
Clear ==
    /\ mgr' = NewManager
    /\ resaved' = {}
    /\ UNCHANGED notCustom

NextCustom ==
    \/ \E sd \in Subdomains, text \in TextsUpTo(CustomLines, MaxCustomLines) :
           AddSubdomain(sd, text)
    \/ \E sd \in Subdomains : RemoveSubdomain(sd)
    \/ Reload
    \/ Clear

InitCustom == CustomInit /\ RulesIdle /\ ParseIdle /\ PollIdle /\ RegIdle /\ LifeIdle /\ HistIdle /\ FilterIdle /\ RestIdle

SpecCustom == InitCustom /\ [][NextCustom]_vars

\* C9: with an override for a URL's subdomain, is_allowed answers from the rules
\* of that override's current text alone: every evaluation equals that of a
\* fresh parser of the text saved last, whatever was saved for it before.
C9_OverrideIsWhole ==
    \A url \in CustomUrls, ua \in Agents :
        url.netloc \in DOMAIN mgr.custom_robots =>
            CustomIsAllowed(mgr, url, ua)
                = ParserIsAllowed(Parse(NewParser, mgr.custom_robots[url.netloc]),
                                  url, ua)

\* An override that replaced an earlier one of the same subdomain and decides
\* differently from the rules a fetched robots.txt would leave (none: allow).
C9_Witness ==
    \E sd \in resaved :
        /\ sd \in DOMAIN mgr.custom_robots
        /\ \E url \in CustomUrls, ua \in Agents :
               url.netloc = sd /\ ~CustomIsAllowed(mgr, url, ua)

(***************************************************************************)
(* SpecPoll: one job's lifetime. Workers append pages; a client polls      *)
(* crawl_status with its cursor as url_since and advances the cursor by    *)
(* the number of pages it is sent.                                         *)
(***************************************************************************)
\* The job starts with no page; a history load may have left the session's
\* full-refresh flag set.
PollInit ==
    /\ crawl_results = <<>>
    /\ force_full_refresh \in BOOLEAN
    /\ url_cursor = 0
    /\ received = <<>>
    /\ poll = NoPoll

\* A worker records a crawled page.
AppendPage(url) ==
    /\ Len(crawl_results) < MaxPages
    /\ \A i \in 1..Len(crawl_results) : crawl_results[i] # url
    /\ crawl_results' = Append(crawl_results, url)
    /\ UNCHANGED <<force_full_refresh, url_cursor, received, poll, notPoll>>

\* GET /api/crawl_status?url_since=<cursor>
CrawlStatus ==
    LET urls == StatusUrls(crawl_results, force_full_refresh, TRUE, url_cursor)
    IN  /\ force_full_refresh' = FALSE
        /\ poll' = [made |-> TRUE, since |-> url_cursor,
                    total |-> Len(crawl_results), urls |-> urls,
                    forced |-> force_full_refresh]
        /\ received' = received \o urls
        /\ url_cursor' = url_cursor + Len(urls)
        /\ UNCHANGED <<crawl_results, notPoll>>

NextPoll ==
    \/ \E url \in PageUrls : AppendPage(url)
    \/ CrawlStatus

InitPoll == PollInit /\ RulesIdle /\ ParseIdle /\ CustomIdle /\ RegIdle /\ LifeIdle /\ HistIdle /\ FilterIdle /\ RestIdle

SpecPoll == InitPoll /\ [][NextPoll]_vars

\* C4: a poll with url_since = k against N pages is answered with exactly the
\* N - k pages at positions k..N-1 in stored order, and the client that
\* advances its cursor by what it is sent has every page exactly once: what it
\* has received is the page list up to its cursor, whatever the poll timing.
C4_CursorPollExact ==
    /\ poll.made =>
           /\ Len(poll.urls) = poll.total - poll.since
           /\ \A i \in 1..Len(poll.urls) : poll.urls[i] = crawl_results[poll.since + i]
    /\ url_cursor <= Len(crawl_results)
    /\ received = SubSeq(crawl_results, 1, url_cursor)
    /\ \A i, j \in 1..Len(received) : received[i] = received[j] => i = j

\* A poll from a cursor that has advanced, answered with new pages, with more
\* pages appended since.
C4_Witness ==
    /\ poll.made
    /\ poll.since > 0
    /\ Len(poll.urls) > 1
    /\ Len(crawl_results) > poll.total

(***************************************************************************)
(* SpecReg: request threads in get_or_create_crawler and                   *)
(* get_session_settings, and the cleanup thread in cleanup_old_instances,  *)
(* interleaved statement by statement.                                     *)
(***************************************************************************)
InFlight == {t \in Threads : threads[t].pc \notin {"idle", "done"}}

\* A request thread enters fn for the session id of its request.
Call(t, fn, sid) ==
    /\ threads[t].pc \in {"idle", "done"}
    /\ threads' = [threads EXCEPT ![t] =
           [IdleThread EXCEPT
               !.pc = "waiting", !.fn = fn, !.sid = sid,
               !.queued = /\ sid \notin DOMAIN crawler_instances
                          /\ \E u \in InFlight : threads[u].sid = sid]]
    /\ UNCHANGED <<crawler_instances, instances_lock, clock, next_obj, pairs,
                   cleaner, sweep, notReg>>

\* with instances_lock:
Acquire(t) ==
    /\ threads[t].pc = "waiting"
    /\ LockFree
    /\ instances_lock' = t
    /\ threads' = [threads EXCEPT ![t].pc = "locked"]
    /\ UNCHANGED <<crawler_instances, clock, next_obj, pairs, cleaner, sweep, notReg>>

\* if session_id not in crawler_instances:
Check(t) ==
    /\ threads[t].pc = "locked"
    /\ threads' = [threads EXCEPT
           ![t].pc = "checked",
           ![t].absent = threads[t].sid \notin DOMAIN crawler_instances]
    /\ UNCHANGED <<crawler_instances, instances_lock, clock, next_obj, pairs,
                   cleaner, sweep, notReg>>

\* The branch taken: a new entry, or last_accessed = datetime.now()
Store(t) ==
    LET sid == threads[t].sid
    IN  /\ threads[t].pc = "checked"
        /\ IF threads[t].absent
           THEN /\ next_obj <= MaxPairs
                /\ crawler_instances' = Put(crawler_instances, sid, NewEntry(next_obj, clock))
                /\ next_obj' = next_obj + 1
                /\ pairs' = [pairs EXCEPT ![sid] = @ \cup {next_obj}]
                /\ threads' = [threads EXCEPT ![t].pc = "stored"]
           ELSE IF sid \in DOMAIN crawler_instances
           THEN /\ crawler_instances' =
                       [crawler_instances EXCEPT ![sid].last_accessed = clock]
                /\ threads' = [threads EXCEPT ![t].pc = "stored"]
                /\ UNCHANGED <<next_obj, pairs>>
           ELSE \* KeyError
                /\ threads' = [threads EXCEPT ![t].pc = "raised"]
                /\ UNCHANGED <<crawler_instances, next_obj, pairs>>
        /\ UNCHANGED <<instances_lock, clock, cleaner, sweep, notReg>>

\* return crawler_instances[session_id]['crawler' or 'settings'], leaving the
\* with block
Return(t) ==
    LET sid == threads[t].sid
        kind == IF threads[t].fn = "get_or_create_crawler" THEN "crawler" ELSE "settings"
    IN  /\ threads[t].pc \in {"stored", "raised"}
        /\ threads' = [threads EXCEPT
               ![t].pc = "done",
               ![t].ret = IF threads[t].pc = "stored" /\ sid \in DOMAIN crawler_instances
                          THEN [kind |-> kind, obj |-> crawler_instances[sid][kind].obj]
                          ELSE [kind |-> "KeyError", obj |-> 0]]
        /\ instances_lock' = IF instances_lock = t THEN "free" ELSE instances_lock
        /\ UNCHANGED <<crawler_instances, clock, next_obj, pairs, cleaner, sweep, notReg>>

\* An hour passes; the statements under the lock take none.
Tick ==
    /\ clock < MaxClock
    /\ instances_lock = "free"
    /\ clock' = clock + 1
    /\ UNCHANGED <<crawler_instances, instances_lock, threads, next_obj, pairs,
                   cleaner, sweep, notReg>>

\* cleanup_old_instances: now = datetime.now()
CleanupCapture ==
    /\ cleaner.pc = "sleep"
    /\ cleaner' = [pc |-> "captured", now |-> clock]
    /\ UNCHANGED <<crawler_instances, instances_lock, threads, clock, next_obj,
                   pairs, sweep, notReg>>

\* with instances_lock:
CleanupAcquire ==
    /\ cleaner.pc = "captured"
    /\ LockFree
    /\ instances_lock' = "cleanup"
    /\ cleaner' = [cleaner EXCEPT !.pc = "locked"]
    /\ UNCHANGED <<crawler_instances, threads, clock, next_obj, pairs, sweep, notReg>>

\* The two loops: the idle entries are collected, then each one's crawler is
\* stopped and the entry deleted; stop_crawl raises for the entries in raising.
CleanupSweep(raising) ==
    LET gone == SessionsToRemove(crawler_instances, cleaner.now)
    IN  /\ cleaner.pc = "locked"
        /\ raising \subseteq gone
        /\ crawler_instances' = WithoutSessions(crawler_instances, gone)
        /\ sweep' = [made |-> TRUE, now |-> cleaner.now, before |-> crawler_instances,
                     raised |-> raising, calls |-> CleanupCalls(gone)]
        /\ pairs' = [sid \in Sessions |-> IF sid \in gone THEN {} ELSE pairs[sid]]
        /\ threads' = [t \in Threads |->
               \* a returned object whose entry is deleted is no longer compared
               IF threads[t].pc = "done" /\ threads[t].sid \in gone
               THEN IdleThread
               ELSE threads[t]]
        /\ cleaner' = [cleaner EXCEPT !.pc = "swept"]
        /\ UNCHANGED <<instances_lock, clock, next_obj, notReg>>

\* The with block is left; the thread sleeps until the next pass.
CleanupRelease ==
    /\ cleaner.pc = "swept"
    /\ cleaner' = [pc |-> "sleep", now |-> 0]
    /\ sweep' = NoSweep
    /\ instances_lock' = IF instances_lock = "cleanup" THEN "free" ELSE instances_lock
    /\ UNCHANGED <<crawler_instances, threads, clock, next_obj, pairs, notReg>>

NextReg ==
    \/ \E t \in Threads, sid \in Sessions,
          fn \in {"get_or_create_crawler", "get_session_settings"} : Call(t, fn, sid)
    \/ \E t \in Threads : Acquire(t)
    \/ \E t \in Threads : Check(t)
    \/ \E t \in Threads : Store(t)
    \/ \E t \in Threads : Return(t)
    \/ Tick
    \/ CleanupCapture
    \/ CleanupAcquire
    \/ \E raising \in SUBSET Sessions : CleanupSweep(raising)
    \/ CleanupRelease

InitReg == RegIdle /\ RulesIdle /\ ParseIdle /\ CustomIdle /\ PollIdle /\ LifeIdle /\ HistIdle /\ FilterIdle /\ RestIdle

SpecReg == InitReg /\ [][NextReg]_vars

\* C7: whatever the interleaving of get_or_create_crawler and
\* get_session_settings calls, one crawler/settings pair is made for a session
\* id until its entry is evicted, and every call returns the crawler (or the
\* settings) of the pair the entry holds for as long as the entry is there.
C7_OnePairPerSession ==
    /\ \A sid \in Sessions : Cardinality(pairs[sid]) <= 1
    /\ \A sid \in DOMAIN crawler_instances :
           /\ pairs[sid] = {crawler_instances[sid].crawler.obj}
           /\ crawler_instances[sid].settings.obj = crawler_instances[sid].crawler.obj
    /\ \A t \in Threads :
           threads[t].pc = "done" =>
               /\ threads[t].sid \in DOMAIN crawler_instances
               /\ threads[t].ret.kind =
                      (IF threads[t].fn = "get_or_create_crawler"
                       THEN "crawler" ELSE "settings")
               /\ threads[t].ret.obj = crawler_instances[threads[t].sid].crawler.obj

\* Two calls for one session id with no entry yet, begun while the other was
\* in progress, one for the crawler and one for the settings, both returned.
C7_Witness ==
    \E t, u \in Threads :
        /\ t # u
        /\ threads[t].pc = "done" /\ threads[u].pc = "done"
        /\ threads[t].sid = threads[u].sid
        /\ threads[t].fn # threads[u].fn
        /\ threads[u].queued

\* C8: a cleanup pass removes exactly the entries last accessed more than one
\* hour before the time it captured, after calling stop_crawl on each one's
\* crawler, whether or not stop_crawl raised; every other entry, one accessed
\* after the capture included, is left as it was.
C8_SweepExact ==
    sweep.made =>
        LET idle == {sid \in DOMAIN sweep.before :
                        sweep.now - sweep.before[sid].last_accessed > Timeout}
        IN  /\ DOMAIN crawler_instances = DOMAIN sweep.before \ idle
            /\ \A sid \in DOMAIN crawler_instances :
                   crawler_instances[sid] = sweep.before[sid]
            /\ \A sid \in idle :
                   \E i, j \in 1..Len(sweep.calls) :
                       /\ i < j
                       /\ sweep.calls[i] = [call |-> "stop_crawl", sid |-> sid]
                       /\ sweep.calls[j] = [call |-> "del", sid |-> sid]
            /\ \A i \in 1..Len(sweep.calls) : sweep.calls[i].sid \in idle

\* A pass that removed an entry whose stop_crawl raised and kept one accessed
\* after the pass captured its time.
C8_Witness ==
    /\ sweep.made
    /\ \E sid \in sweep.raised : sid \notin DOMAIN crawler_instances
    /\ \E sid \in DOMAIN crawler_instances :
           crawler_instances[sid].last_accessed > sweep.now

(***************************************************************************)
(* SpecLife: the server process from launch to exit or kill, the crawls    *)
(* its sessions run, and the writes to the persisted status.               *)
(***************************************************************************)
Statuses == {"idle", "running", "paused", "stopped", "completed", "failed", "crashed"}

CrawlIds == 1..MaxCrawls

\* The crawler of session sid replaced by c.
WithCrawler(reg, sid, c) == [reg EXCEPT ![sid].crawler = c]

\* The registry instances that hold job id as their running crawl.
RunningOn(reg, id) ==
    {sid \in DOMAIN reg : reg[sid].crawler.is_running /\ reg[sid].crawler.crawl_id = id}

\* python main.py: the modules are loaded, the registry is empty. shut keeps
\* what the shutdown of the process before did.
Launch ==
    /\ proc \in {"down", "exited"}
    /\ proc' = "starting"
    /\ crawler_instances' = <<>>
    /\ next_obj' = 1
    /\ swept' = NoSwept
    /\ UNCHANGED <<db, shut, notLife>>

\* main: recover_crashed_crawls()
Recover ==
    /\ proc = "starting"
    /\ proc' = "recovered"
    /\ db' = RecoverCrashedCrawls(db)
    /\ swept' = [made |-> TRUE, before |-> db]
    /\ UNCHANGED <<crawler_instances, next_obj, shut, notLife>>

\* main: start_cleanup_thread(); serve(app, ...). What the sweep found and
\* what the process before did are history from here on.
Serve ==
    /\ proc = "recovered"
    /\ proc' = "serving"
    /\ swept' = NoSwept
    /\ shut' = NoShut
    /\ UNCHANGED <<db, crawler_instances, next_obj, notLife>>

\* POST /api/start_crawl: the session's crawler starts a new job, persisted
\* with status running.
StartCrawl(sid) ==
    LET reg == GetOrCreateCrawler(crawler_instances, sid, next_obj, clock)
        id == Cardinality(DOMAIN db) + 1
    IN  /\ proc = "serving"
        /\ ~reg[sid].crawler.is_running
        /\ id <= MaxCrawls
        /\ db' = Put(db, id, "running")
        /\ crawler_instances' = WithCrawler(reg, sid,
               [reg[sid].crawler EXCEPT
                   !.is_running = TRUE, !.is_paused = FALSE, !.crawl_id = id])
        /\ next_obj' = IF sid \in DOMAIN crawler_instances THEN next_obj ELSE next_obj + 1
        /\ UNCHANGED <<proc, swept, shut, notLife>>

\* pause_crawl()
PauseCrawl(sid) ==
    /\ proc = "serving"
    /\ sid \in DOMAIN crawler_instances
    /\ crawler_instances[sid].crawler.is_running
    /\ ~crawler_instances[sid].crawler.is_paused
    /\ crawler_instances' = [crawler_instances EXCEPT ![sid].crawler.is_paused = TRUE]
    /\ db' = SetCrawlStatus(db, crawler_instances[sid].crawler.crawl_id, "paused")
    /\ UNCHANGED <<proc, next_obj, swept, shut, notLife>>

\* resume_crawl()
ResumeCrawl(sid) ==
    /\ proc = "serving"
    /\ sid \in DOMAIN crawler_instances
    /\ crawler_instances[sid].crawler.is_running
    /\ crawler_instances[sid].crawler.is_paused
    /\ crawler_instances' = [crawler_instances EXCEPT ![sid].crawler.is_paused = FALSE]
    /\ db' = SetCrawlStatus(db, crawler_instances[sid].crawler.crawl_id, "running")
    /\ UNCHANGED <<proc, next_obj, swept, shut, notLife>>

\* stop_crawl(), or the workers ending the job: completed, or failed on a
\* fatal error
EndCrawl(sid, status) ==
    /\ proc = "serving"
    /\ sid \in DOMAIN crawler_instances
    /\ crawler_instances[sid].crawler.is_running
    /\ status = "stopped" \/ ~crawler_instances[sid].crawler.is_paused
    /\ crawler_instances' = [crawler_instances EXCEPT
           ![sid].crawler.is_running = FALSE, ![sid].crawler.is_paused = FALSE]
    /\ db' = SetCrawlStatus(db, crawler_instances[sid].crawler.crawl_id, status)
    /\ UNCHANGED <<proc, next_obj, swept, shut, notLife>>

\* POST /api/crawls/<id>/resume: resume_from_database restarts the workers on
\* the persisted job with status running.
ResumeCrawlEndpoint(sid, id) ==
    LET reg == GetOrCreateCrawler(crawler_instances, sid, next_obj, clock)
    IN  /\ proc = "serving"
        /\ id \in DOMAIN db
        /\ ~reg[sid].crawler.is_running
        /\ RunningOn(crawler_instances, id) = {}
        /\ db' = SetCrawlStatus(db, id, "running")
        /\ crawler_instances' = WithCrawler(reg, sid,
               [reg[sid].crawler EXCEPT
                   !.is_running = TRUE, !.is_paused = FALSE, !.crawl_id = id])
        /\ next_obj' = IF sid \in DOMAIN crawler_instances THEN next_obj ELSE next_obj + 1
        /\ UNCHANGED <<proc, swept, shut, notLife>>

\* POST /api/crawls/<id>/archive
ArchiveCrawl(id) ==
    /\ proc = "serving"
    /\ id \in DOMAIN db
    /\ db' = SetCrawlStatus(db, id, "archived")
    /\ UNCHANGED <<proc, crawler_instances, next_obj, swept, shut, notLife>>

\* SIGINT or SIGTERM: graceful_shutdown saves every running instance, the
\* save of each ending as outcome says, and the process exits.
GracefulShutdown(outcome) ==
    LET targets == ShutdownTargets(crawler_instances)
    IN  /\ proc \in {"starting", "recovered", "serving"}
        /\ \A sid \in Sessions \ targets : outcome[sid] = "saved"
        /\ db' = ShutdownStatuses(db, crawler_instances, outcome)
        /\ shut' = [made |-> TRUE,
                    before |-> db,
                    raised |-> JobsWith(crawler_instances, targets, outcome,
                                        {"flush_raises", "checkpoint_raises"}),
                    flushed |-> JobsWith(crawler_instances, targets, outcome,
                                         {"saved", "checkpoint_raises"}),
                    checkpointed |-> JobsWith(crawler_instances, targets, outcome, {"saved"}),
                    paused |-> JobsWith(crawler_instances, targets, outcome, {"saved"})]
        /\ proc' = "exited"
        /\ swept' = NoSwept
        /\ UNCHANGED <<crawler_instances, next_obj, notLife>>

\* The process dies with no handler run: SIGKILL, a power cut.
Kill ==
    /\ proc \in {"starting", "recovered", "serving"}
    /\ proc' = "down"
    /\ swept' = NoSwept
    /\ shut' = NoShut
    /\ UNCHANGED <<db, crawler_instances, next_obj, notLife>>

NextLife ==
    \/ Launch
    \/ Recover
    \/ Serve
    \/ \E sid \in Sessions : StartCrawl(sid)
    \/ \E sid \in Sessions : PauseCrawl(sid)
    \/ \E sid \in Sessions : ResumeCrawl(sid)
    \/ \E sid \in Sessions, status \in {"stopped", "completed", "failed"} :
           EndCrawl(sid, status)
    \/ \E sid \in Sessions, id \in CrawlIds : ResumeCrawlEndpoint(sid, id)
    \/ \E id \in CrawlIds : ArchiveCrawl(id)
    \/ \E outcome \in [Sessions -> SaveOutcomes] : GracefulShutdown(outcome)
    \/ Kill

InitLife == LifeIdle /\ RegIdle /\ RulesIdle /\ ParseIdle /\ CustomIdle /\ PollIdle /\ HistIdle /\ FilterIdle /\ RestIdle

SpecLife == InitLife /\ [][NextLife]_vars

C6_ShutdownPausesEveryRunning ==
    proc = "exited" =>
        \A sid \in DOMAIN crawler_instances :
            LET crawler == crawler_instances[sid].crawler
            IN  (crawler.is_running /\ crawler.crawl_id \in DOMAIN db) =>
                    /\ crawler.crawl_id \in shut.flushed
                    /\ crawler.crawl_id \in shut.checkpointed
                    /\ db[crawler.crawl_id] = "paused"

\* C26: when the process has exited through graceful_shutdown, the jobs the
\* handler wrote paused for are jobs whose forced flush and whose checkpoint both
\* returned, and have status paused; a job whose flush or checkpoint raised
\* has the status it had before the handler ran; and every other job a
\* running instance held is paused, whichever instances raised.
C26_PausedOnlyAfterSave ==
    proc = "exited" =>
        /\ shut.made
        /\ shut.paused \subseteq shut.flushed \cap shut.checkpointed
        /\ \A id \in DOMAIN db :
               /\ id \in shut.paused => db[id] = "paused"
               /\ id \in shut.raised => db[id] = shut.before[id]
               /\ id \notin shut.paused => db[id] = shut.before[id]
        /\ \A sid \in ShutdownTargets(crawler_instances) :
               crawler_instances[sid].crawler.crawl_id \in shut.paused \cup shut.raised

\* A shutdown with two running jobs: the save of one raised and left it
\* running, the other was flushed, checkpointed and paused.
C26_Witness ==
    /\ proc = "exited"
    /\ shut.made
    /\ \E i \in shut.raised, j \in shut.paused :
           /\ i # j
           /\ shut.before[i] = "running" /\ db[i] = "running"
           /\ shut.before[j] = "running" /\ db[j] = "paused"
           /\ j \in shut.flushed \cap shut.checkpointed

C10_StatusInStateMachine ==
    \A id \in DOMAIN db : db[id] \in Statuses

(***************************************************************************)
(* SpecHist: the sessions' requests to the history endpoints, with         *)
(* load_crawl_into_session taken statement by statement and the other      *)
(* endpoints arriving in between.                                          *)
(* SpecLoad: load_crawl_into_session statement by statement, with status   *)
(* reads of the same crawler and deletions arriving in between.            *)
(***************************************************************************)
HistInit ==
    /\ crawls = [id \in StoredIds |-> [user_id |-> OwnerOf(id), status |-> "completed"]]
    /\ session = [sid \in HistSessions |->
                     [user_id |-> SessionUser(sid), force_full_refresh |-> FALSE]]
    /\ crawlers \in [HistSessions -> {FreshCrawler, BusyCrawler}]
    /\ load = NoLoad
    /\ answer = NoAnswer
    /\ snap = NoSnap

\* The answer an endpoint gives to session sid asking for crawl id.
Answer(op, sid, id, code, changed) ==
    [made |-> TRUE, op |-> op, sid |-> sid, code |-> code,
     existed |-> id \in DOMAIN crawls,
     owner |-> IF id \in DOMAIN crawls THEN crawls[id].user_id ELSE 0,
     changed |-> changed]

\* GET /api/crawls/<id>
GetCrawl(sid, id) ==
    /\ answer' = Answer("get", sid, id, AccessCode(crawls, session[sid].user_id, id), FALSE)
    /\ UNCHANGED <<crawls, session, crawlers, load, snap, notHist>>

\* DELETE /api/crawls/<id>/delete
DeleteCrawlEndpoint(sid, id) ==
    LET code == AccessCode(crawls, session[sid].user_id, id)
    IN  /\ crawls' = IF code = 200 THEN Del(crawls, id) ELSE crawls
        /\ answer' = Answer("delete", sid, id, code, crawls' # crawls)
        /\ UNCHANGED <<session, crawlers, load, snap, notHist>>

\* POST /api/crawls/<id>/archive
ArchiveCrawlEndpoint(sid, id) ==
    LET code == AccessCode(crawls, session[sid].user_id, id)
    IN  /\ crawls' = IF code = 200 THEN [crawls EXCEPT ![id].status = "archived"] ELSE crawls
        /\ answer' = Answer("archive", sid, id, code, crawls' # crawls)
        /\ UNCHANGED <<session, crawlers, load, snap, notHist>>

\* POST /api/crawls/<id>/load, up to the two checks
LoadCheck(sid, id) ==
    LET code == AccessCode(crawls, session[sid].user_id, id)
    IN  /\ load.pc = "idle"
        /\ IF code = 200
           THEN /\ load' = [NoLoad EXCEPT !.pc = "checked", !.sid = sid, !.id = id,
                                          !.owner = crawls[id].user_id]
                /\ answer' = NoAnswer
           ELSE /\ answer' = Answer("load", sid, id, code, FALSE)
                /\ UNCHANGED load
        /\ snap' = NoSnap
        /\ UNCHANGED <<crawls, session, crawlers, notHist>>

\* crawler = get_or_create_crawler(); stop_crawl() if it runs; the three loads
LoadFetch ==
    LET present == load.id \in DOMAIN crawls
    IN  /\ load.pc = "checked"
        /\ crawlers' = [crawlers EXCEPT ![load.sid].is_running = FALSE]
        /\ load' = [load EXCEPT
               !.pc = "loaded",
               !.urls = IF present THEN LoadCrawledUrls(load.id) ELSE <<>>,
               !.links = IF present THEN LoadCrawlLinks(load.id) ELSE <<>>,
               !.issues = IF present THEN LoadCrawlIssues(load.id) ELSE <<>>,
               !.before = GetStatus(crawlers[load.sid])]
        /\ UNCHANGED <<crawls, session, answer, snap, notHist>>

\* with crawler.results_lock: crawl_results, stats, base_url, base_domain
LoadPages ==
    /\ load.pc = "loaded"
    /\ crawlers' = [crawlers EXCEPT
           ![load.sid].crawl_results = load.urls,
           ![load.sid].stats = [crawled |-> Len(load.urls), discovered |-> Len(load.urls)],
           ![load.sid].base_url = "loaded"]
    /\ load' = [load EXCEPT !.pc = "pages"]
    /\ UNCHANGED <<crawls, session, answer, snap, notHist>>

\* link_manager.all_links = links, and links_set rebuilt
LoadLinks ==
    /\ load.pc = "pages"
    /\ crawlers' = [crawlers EXCEPT
           ![load.sid].all_links = load.links,
           ![load.sid].links_set = RebuildLinksSet(crawlers[load.sid].links_set, load.links)]
    /\ load' = [load EXCEPT !.pc = "links"]
    /\ UNCHANGED <<crawls, session, answer, snap, notHist>>

\* issue_detector.detected_issues = issues; session['force_full_refresh'] =
\* True; the success answer
LoadIssues ==
    /\ load.pc = "links"
    /\ crawlers' = [crawlers EXCEPT ![load.sid].detected_issues = load.issues]
    /\ session' = [session EXCEPT ![load.sid].force_full_refresh = TRUE]
    /\ answer' = [made |-> TRUE, op |-> "load", sid |-> load.sid, code |-> 200,
                  existed |-> TRUE, owner |-> load.owner, changed |-> TRUE]
    /\ load' = NoLoad
    /\ UNCHANGED <<crawls, snap, notHist>>

\* GET /api/crawl_status of the session whose load is in progress: the
\* snapshot get_status returns, and the flag popped
StatusDuringLoad ==
    /\ load.pc \in {"loaded", "pages", "links"}
    /\ snap' = [made |-> TRUE,
                status |-> GetStatus(crawlers[load.sid]),
                previous |-> load.before,
                loaded |-> StatusOfLoaded(load.urls, load.links, load.issues)]
    /\ session' = [session EXCEPT ![load.sid].force_full_refresh = FALSE]
    /\ UNCHANGED <<crawls, crawlers, load, answer, notHist>>

NextHist ==
    \/ \E sid \in HistSessions, id \in RequestIds : GetCrawl(sid, id)
    \/ \E sid \in HistSessions, id \in RequestIds : DeleteCrawlEndpoint(sid, id)
    \/ \E sid \in HistSessions, id \in RequestIds : ArchiveCrawlEndpoint(sid, id)
    \/ \E sid \in HistSessions, id \in RequestIds : LoadCheck(sid, id)
    \/ LoadFetch
    \/ LoadPages
    \/ LoadLinks
    \/ LoadIssues

InitHist ==
    HistInit /\ RulesIdle /\ ParseIdle /\ CustomIdle /\ PollIdle /\ RegIdle /\ LifeIdle
        /\ FilterIdle /\ RestIdle

SpecHist == InitHist /\ [][NextHist]_vars

NextLoad ==
    \/ \E sid \in HistSessions, id \in RequestIds : LoadCheck(sid, id)
    \/ LoadFetch
    \/ LoadPages
    \/ LoadLinks
    \/ LoadIssues
    \/ StatusDuringLoad
    \/ \E sid \in HistSessions, id \in RequestIds : DeleteCrawlEndpoint(sid, id)

InitLoad ==
    HistInit /\ RulesIdle /\ ParseIdle /\ CustomIdle /\ PollIdle /\ RegIdle /\ LifeIdle
        /\ FilterIdle /\ RestIdle

SpecLoad == InitLoad /\ [][NextLoad]_vars

\* C11: a read, load, delete or archive of a persisted crawl succeeds only if
\* the crawl exists and its owner is the session's user; a missing crawl is
\* answered not-found and a crawl of someone else unauthorized, and neither
\* error changes the persisted crawls or the session's crawler.
C11_OnlyOwnerSucceeds ==
    answer.made =>
        LET owned == answer.existed /\ answer.owner = session[answer.sid].user_id
        IN  /\ answer.code = 200 => owned
            /\ ~answer.existed => answer.code = 404
            /\ (answer.existed /\ ~owned) => answer.code = 403
            /\ answer.code \in {403, 404} => ~answer.changed

\* C12: a status read made while load_crawl_into_session is in progress on
\* the same crawler returns either what the crawler held before the load or
\* what was loaded: pages, links, issues and counters all of the one or all of
\* the other.
C12_SnapshotOfOneJob ==
    snap.made => snap.status \in {snap.previous, snap.loaded}

\* C20: when load_crawl_into_session has replaced the link list, links_set is
\* exactly the set of source|target keys of the loaded links.
C20_LinksSetIsLoadedKeys ==
    load.pc = "links" =>
        /\ crawlers[load.sid].all_links = load.links
        /\ crawlers[load.sid].links_set =
               {load.links[i].source_url \o <<"|">> \o load.links[i].target_url :
                    i \in 1..Len(load.links)}

\* A load over a crawler that held links of its own, none of them among the
\* loaded ones.
C20_Witness ==
    /\ load.pc = "links"
    /\ load.links # <<>>
    /\ load.before.links # <<>>
    /\ \A i \in 1..Len(load.before.links) :
           \A j \in 1..Len(load.links) : load.before.links[i] # load.links[j]

(***************************************************************************)
(* SpecFilter: a stored issue list and a pattern list, filtered on a read  *)
(* and the result filtered again.                                          *)
(***************************************************************************)
IssueTypes == {"missing_title"}

StoredIssues == {[url |-> u, type |-> t] : u \in IssueUrls, t \in IssueTypes}

FilterInit ==
    /\ detected_issues \in TextsUpTo(StoredIssues, MaxIssues)
    /\ exclusion_patterns \in TextsUpTo(PatternLines, MaxPatterns)
    /\ filtered = NoFiltered

\* filter_issues_by_exclusion_patterns(issues, exclusion_patterns) on the
\* stored list
FilterStored ==
    /\ ~filtered.made
    /\ filtered' = [NoFiltered EXCEPT
           !.made = TRUE,
           !.out = FilterIssuesByExclusionPatterns(detected_issues, exclusion_patterns)]
    /\ UNCHANGED <<detected_issues, exclusion_patterns, notFilter>>

\* The filter applied to what it returned
FilterAgain ==
    /\ filtered.made
    /\ ~filtered.again
    /\ filtered' = [filtered EXCEPT
           !.again = TRUE,
           !.out2 = FilterIssuesByExclusionPatterns(filtered.out, exclusion_patterns)]
    /\ UNCHANGED <<detected_issues, exclusion_patterns, notFilter>>

NextFilter == FilterStored \/ FilterAgain

InitFilter ==
    FilterInit /\ RulesIdle /\ ParseIdle /\ CustomIdle /\ PollIdle /\ RegIdle /\ LifeIdle
        /\ HistIdle /\ RestIdle

SpecFilter == InitFilter /\ [][NextFilter]_vars

\* The part of a URL before its query.
BeforeQuery(url) ==
    IF \E i \in 1..Len(url) : url[i] = "?"
    THEN SubSeq(url, 1, (CHOOSE i \in 1..Len(url) :
                            url[i] = "?" /\ \A j \in 1..(i - 1) : url[j] # "?") - 1)
    ELSE url

EndsWith(text, suffix) ==
    /\ Len(suffix) <= Len(text)
    /\ SubSeq(text, Len(text) - Len(suffix) + 1, Len(text)) = suffix

PatternIndexes == 1..Len(exclusion_patterns)

\* C13: filtering the filtered list with the same patterns changes nothing;
\* and when *.json is the pattern, no issue whose path ends in .json is
\* returned and every issue whose path ends in .html is.
C13_FilterIdempotent ==
    /\ filtered.again => filtered.out2 = filtered.out
    /\ (filtered.made /\ exclusion_patterns = << <<"*">> \o DotJson >>) =>
           \A i \in 1..Len(detected_issues) :
               LET path == BeforeQuery(detected_issues[i].url)
               IN  /\ EndsWith(path, DotJson) =>
                          \A k \in 1..Len(filtered.out) :
                              filtered.out[k] # detected_issues[i]
                   /\ EndsWith(path, DotHtml) =>
                          \E k \in 1..Len(filtered.out) :
                              filtered.out[k] = detected_issues[i]

\* *.json applied twice to a list with a .json page, and with a .html page
\* whose query ends in .json.
C13_Witness ==
    /\ filtered.again
    /\ exclusion_patterns = << <<"*">> \o DotJson >>
    /\ \E i \in 1..Len(detected_issues) :
           EndsWith(BeforeQuery(detected_issues[i].url), DotJson)
    /\ \E i \in 1..Len(detected_issues) :
           /\ EndsWith(BeforeQuery(detected_issues[i].url), DotHtml)
           /\ EndsWith(detected_issues[i].url, DotJson)

\* A pattern that is not blank and is no comment matches the path: by glob
\* when it holds a `*`, else by equality or as a prefix.
PatternMatchesPath(pattern, path) ==
    /\ \E i \in 1..Len(pattern) : pattern[i] # " "
    /\ \A i \in 1..Len(pattern) :
           (pattern[i] = "#") => \E j \in 1..(i - 1) : pattern[j] # " "
    /\ IF \E i \in 1..Len(pattern) : pattern[i] = "*"
       THEN FnMatch(path, pattern)
       ELSE \/ path = pattern
            \/ Len(pattern) <= Len(path) /\ SubSeq(path, 1, Len(pattern)) = pattern

IssueKept(issue) ==
    ~\E i \in PatternIndexes :
        PatternMatchesPath(exclusion_patterns[i], BeforeQuery(issue.url))

\* C14: the filter returns, in stored order, exactly the issues whose path no
\* pattern matches, blank lines and # comments aside, and leaves the stored
\* list as it was.
C14_ExcludesExactlyMatched ==
    filtered.made => filtered.out = SelectSeq(detected_issues, IssueKept)

\* Two patterns, the first matching nothing stored and the second excluding
\* one of two stored issues.
C14_Witness ==
    /\ filtered.made
    /\ Len(exclusion_patterns) = 2
    /\ Len(detected_issues) = 2
    /\ Len(filtered.out) = 1
    /\ \A i \in 1..Len(detected_issues) :
           ~PatternMatchesPath(exclusion_patterns[1], BeforeQuery(detected_issues[i].url))

(***************************************************************************)
(* SpecRefresh: sessions that load persisted crawls and poll crawl_status  *)
(* with every combination of cursors.                                      *)
(***************************************************************************)
\* The cursor values a poll passes: none, 0, 1
Cursors == {Absent} \cup (0..MaxCursor)

\* The issueExclusionPatterns setting: none, or /b (the issues of the URLs
\* that begin with /b are excluded)
RefreshPatterns == {<<>>, <<(<<"/", "b">>)>>}

RefreshInit ==
    /\ crawls = [id \in StoredIds |-> [user_id |-> OwnerOf(id), status |-> "completed"]]
    /\ session = [sid \in HistSessions |->
                     [user_id |-> SessionUser(sid), force_full_refresh |-> FALSE]]
    /\ crawlers \in [HistSessions -> {FreshCrawler, BusyCrawler}]
    /\ load = NoLoad
    /\ answer = NoAnswer
    /\ snap = NoSnap
    /\ detected_issues = <<>>
    /\ exclusion_patterns \in RefreshPatterns
    /\ filtered = NoFiltered
    /\ due = {}
    /\ polled = NoPolled

\* POST /api/crawls/<id>/load, from request to response
LoadCrawlIntoSession(sid, id) ==
    /\ IF AccessCode(crawls, session[sid].user_id, id) = 200
       THEN /\ crawlers' = [crawlers EXCEPT ![sid] = LoadedInto(@, id)]
            /\ session' = [session EXCEPT ![sid].force_full_refresh = TRUE]
            /\ due' = due \cup {sid}
            /\ polled' = IF polled.sid = sid THEN NoPolled ELSE polled
       ELSE UNCHANGED <<crawlers, session, due, polled>>
    /\ UNCHANGED <<crawls, load, answer, snap, filterVars, rulesVars, parseVars,
                   customVars, pollVars, regVars, lifeVars, overrideVars, guestVars, analyzeVars>>

\* GET /api/crawl_status?url_since=&link_since=&issue_since=
CrawlStatusPoll(sid, since) ==
    LET r == CrawlStatusOf(crawlers[sid], session[sid], exclusion_patterns, since)
    IN  /\ session' = [session EXCEPT ![sid] = r.session]
        /\ polled' = [made |-> TRUE, sid |-> sid, since |-> since, was_due |-> sid \in due,
                      urls |-> r.urls, links |-> r.links, issues |-> r.issues]
        /\ due' = due \ {sid}
        /\ UNCHANGED <<crawls, crawlers, load, answer, snap, filterVars, rulesVars,
                       parseVars, customVars, pollVars, regVars, lifeVars, overrideVars,
                       guestVars, analyzeVars>>

NextRefresh ==
    \/ \E sid \in HistSessions, id \in RequestIds : LoadCrawlIntoSession(sid, id)
    \/ \E sid \in HistSessions, since \in Cursors \X Cursors \X Cursors :
           CrawlStatusPoll(sid, since)

InitRefresh ==
    RefreshInit /\ RulesIdle /\ ParseIdle /\ CustomIdle /\ PollIdle /\ RegIdle /\ LifeIdle
        /\ OverrideIdle /\ GuestIdle /\ AnalyzeIdle

SpecRefresh == InitRefresh /\ [][NextRefresh]_vars

\* list[since:], or the list when no cursor was passed
FromCursor(list, since) ==
    IF since = Absent THEN list ELSE SubSeq(list, since + 1, Len(list))

\* The issues of a list that the exclusion patterns of the settings keep.
KeptIssues(issues) ==
    SelectSeq(issues,
              LAMBDA i : ~ShouldExclude(IssuePath(i.url), exclusion_patterns, 1))

\* C21: the first status poll of a session after a load completed for it is
\* answered with the whole page list, link list and issue list (the issues its
\* exclusion patterns keep) whatever its cursors, and consumes the flag: every
\* other poll is answered from its cursors on, and the flag is set exactly for
\* the sessions a load completed for since their last poll.
C21_FullOnceAfterLoad ==
    /\ \A sid \in HistSessions : session[sid].force_full_refresh = (sid \in due)
    /\ polled.made =>
           LET c == crawlers[polled.sid]
           IN  IF polled.was_due
               THEN /\ polled.urls = c.crawl_results
                    /\ polled.links = c.all_links
                    /\ polled.issues = KeptIssues(c.detected_issues)
               ELSE /\ polled.urls = FromCursor(c.crawl_results, polled.since[1])
                    /\ polled.links = FromCursor(c.all_links, polled.since[2])
                    /\ polled.issues
                           = KeptIssues(FromCursor(c.detected_issues, polled.since[3]))

\* A poll with cursors past the start answered with the whole lists of the
\* crawl just loaded, the flag consumed.
C21_Witness ==
    /\ polled.made
    /\ polled.was_due
    /\ polled.since = <<1, 1, 1>>
    /\ Len(polled.urls) = 2
    /\ Len(polled.links) = 2
    /\ polled.issues # <<>>
    /\ ~session[polled.sid].force_full_refresh


(***************************************************************************)
(* SpecIsolate: two browsers, with and without a session id, using the     *)
(* custom-robots endpoints one request at a time.                          *)
(* SpecManagers: one session whose requests run on two threads,            *)
(* interleaved statement by statement.                                     *)
(***************************************************************************)
OverrideOps == {"save", "get", "list", "test", "delete"}

OverrideSubdomains == {"a.site"}

\* The entries of the overrides a request saw saved when it began that are
\* still saved, unchanged, when it is answered.
Stable(before, now) ==
    [sd \in {x \in DOMAIN before \cap DOMAIN now : before[x] = now[x]} |-> now[sd]]

\* A request of browser b arrives: session_id = session.get('session_id', 'default')
BeginRequest(t, b, op, sd, text) ==
    /\ reqs[t].pc = "idle"
    /\ reqs' = [reqs EXCEPT ![t] =
           [pc |-> "check", b |-> b, op |-> op, key |-> SessionKey(cookie[b]),
            sd |-> sd, text |-> IF op = "save" THEN text ELSE <<>>, obj |-> 0,
            before |-> kept[b]]]
    /\ UNCHANGED <<cookie, managers, heap, reply, kept, handed>>
    /\ UNCHANGED <<rulesVars, parseVars, customVars, pollVars, regVars, lifeVars, histVars,
                   filterVars, refreshVars, guestVars, analyzeVars>>

\* `if session_id not in _custom_robots_managers:`
ManagerCheck(t) ==
    /\ reqs[t].pc = "check"
    /\ reqs' = [reqs EXCEPT ![t].pc =
           IF reqs[t].key \in DOMAIN managers THEN "return" ELSE "create"]
    /\ UNCHANGED <<cookie, managers, heap, reply, kept, handed>>
    /\ UNCHANGED <<rulesVars, parseVars, customVars, pollVars, regVars, lifeVars, histVars,
                   filterVars, refreshVars, guestVars, analyzeVars>>

\* `_custom_robots_managers[session_id] = CustomRobotsManager()`
ManagerCreate(t) ==
    LET obj == Cardinality(DOMAIN heap) + 1
    IN  /\ reqs[t].pc = "create"
        /\ obj <= MaxManagers
        /\ heap' = Put(heap, obj, NewManager)
        /\ managers' = Put(managers, reqs[t].key, obj)
        /\ reqs' = [reqs EXCEPT ![t].pc = "return"]
        /\ UNCHANGED <<cookie, reply, kept, handed>>
        /\ UNCHANGED <<rulesVars, parseVars, customVars, pollVars, regVars, lifeVars,
                       histVars, filterVars, refreshVars, guestVars, analyzeVars>>

\* `return _custom_robots_managers[session_id]`
ManagerReturn(t) ==
    LET key == reqs[t].key
        obj == managers[key]
    IN  /\ reqs[t].pc = "return"
        /\ reqs' = [reqs EXCEPT ![t].pc = "act", ![t].obj = obj]
        /\ handed' = Put(handed, key,
                         (IF key \in DOMAIN handed THEN handed[key] ELSE {}) \cup {obj})
        /\ UNCHANGED <<cookie, managers, heap, reply, kept>>
        /\ UNCHANGED <<rulesVars, parseVars, customVars, pollVars, regVars, lifeVars,
                       histVars, filterVars, refreshVars, guestVars, analyzeVars>>

\* The endpoint's call on the manager it was handed, and its answer
EndpointAct(t) ==
    LET r == reqs[t]
        m == heap[r.obj]
        has == r.sd \in DOMAIN m.custom_robots
        tested == ManagerTestPath(m, r.sd, <<"/", "a">>, <<"*">>)
    IN  /\ r.pc = "act"
        /\ heap' = [heap EXCEPT ![r.obj] =
               IF r.op = "save" THEN AddSubdomainTo(m, r.sd, r.text)
               ELSE IF r.op = "delete" THEN RemoveSubdomainFrom(m, r.sd)
               ELSE m]
        /\ kept' = [kept EXCEPT ![r.b] =
               IF r.op = "save" THEN Put(@, r.sd, r.text)
               ELSE IF r.op = "delete" /\ has THEN Del(@, r.sd)
               ELSE @]
        /\ reply' =
               [made |-> TRUE, b |-> r.b, op |-> r.op, sd |-> r.sd,
                found |-> IF r.op = "save" THEN TRUE
                          ELSE IF r.op = "test"
                          THEN tested.reason # "No custom robots.txt for this subdomain"
                          ELSE has,
                content |-> IF r.op = "get" /\ has THEN m.custom_robots[r.sd] ELSE <<>>,
                subdomains |-> IF r.op = "list" THEN DOMAIN m.custom_robots ELSE {},
                own |-> kept[r.b],
                stable |-> Stable(r.before, kept[r.b])]
        /\ reqs' = [reqs EXCEPT ![t] = NoRequest]
        /\ UNCHANGED <<cookie, managers, handed>>
        /\ UNCHANGED <<rulesVars, parseVars, customVars, pollVars, regVars, lifeVars,
                       histVars, filterVars, refreshVars, guestVars, analyzeVars>>

\* A request of browser b to an endpoint that calls get_or_create_crawler:
\* `if 'session_id' not in session: session['session_id'] = str(uuid.uuid4())`
AssignSessionId(b) ==
    /\ cookie[b] = ""
    /\ cookie' = [cookie EXCEPT ![b] = NewSessionId(b)]
    /\ UNCHANGED <<managers, heap, reqs, reply, kept, handed>>
    /\ UNCHANGED <<rulesVars, parseVars, customVars, pollVars, regVars, lifeVars, histVars,
                   filterVars, refreshVars, guestVars, analyzeVars>>

NextIsolate ==
    \/ \E b \in Browsers, op \in OverrideOps, sd \in OverrideSubdomains,
          text \in OverrideTexts : BeginRequest("t1", b, op, sd, text)
    \/ ManagerCheck("t1")
    \/ ManagerCreate("t1")
    \/ ManagerReturn("t1")
    \/ EndpointAct("t1")
    \/ \E b \in Browsers : AssignSessionId(b)

InitIsolate ==
    OverrideIdle /\ RulesIdle /\ ParseIdle /\ CustomIdle /\ PollIdle /\ RegIdle /\ LifeIdle
        /\ HistIdle /\ FilterIdle /\ RefreshIdle /\ GuestIdle /\ AnalyzeIdle

SpecIsolate == InitIsolate /\ [][NextIsolate]_vars

\* C22: what list, get and test answer a browser session holds only overrides
\* that session saved itself, also for sessions without a session id: a get
\* finds only the content the session saved for the subdomain, a list names
\* only subdomains the session saved, a test uses custom rules only for them.
C22_OverridesPerSession ==
    reply.made =>
        /\ (reply.op = "get" /\ reply.found) =>
               (reply.sd \in DOMAIN reply.own /\ reply.content = reply.own[reply.sd])
        /\ reply.op = "list" => reply.subdomains \subseteq DOMAIN reply.own
        /\ (reply.op = "test" /\ reply.found) => reply.sd \in DOMAIN reply.own


ManagerOps == {"save", "get", "list", "delete"}

\* The session of browser b1 has its session id; its requests use any thread.
ManagersInit ==
    /\ cookie = [b \in Browsers |-> NewSessionId(b)]
    /\ managers = <<>>
    /\ heap = <<>>
    /\ reqs = [t \in Threads |-> NoRequest]
    /\ reply = NoReply
    /\ kept = [b \in Browsers |-> <<>>]
    /\ handed = <<>>

NextManagers ==
    \/ \E t \in Threads, op \in ManagerOps, sd \in OverrideSubdomains,
          text \in OverrideTexts : BeginRequest(t, "b1", op, sd, text)
    \/ \E t \in Threads : ManagerCheck(t)
    \/ \E t \in Threads : ManagerCreate(t)
    \/ \E t \in Threads : ManagerReturn(t)
    \/ \E t \in Threads : EndpointAct(t)

InitManagers ==
    ManagersInit /\ RulesIdle /\ ParseIdle /\ CustomIdle /\ PollIdle /\ RegIdle /\ LifeIdle
        /\ HistIdle /\ FilterIdle /\ RefreshIdle /\ GuestIdle /\ AnalyzeIdle

SpecManagers == InitManagers /\ [][NextManagers]_vars

\* C29: whatever the interleaving of a session's requests, a get or list that
\* begins after a save was answered with success returns the saved override
\* unless it was deleted or overwritten meanwhile, and get_custom_robots_manager
\* hands every request of the session the same manager object.
C29_SavedOverrideIsReturned ==
    /\ \A key \in DOMAIN handed : Cardinality(handed[key]) <= 1
    /\ reply.made =>
           /\ (reply.op = "get" /\ reply.sd \in DOMAIN reply.stable) =>
                  (reply.found /\ reply.content = reply.stable[reply.sd])
           /\ reply.op = "list" => DOMAIN reply.stable \subseteq reply.subdomains


(***************************************************************************)
(* SpecGuest: guest sessions behind one client IP calling start_crawl on   *)
(* two threads, interleaved statement by statement, all within 24 hours.   *)
(***************************************************************************)
GuestInit ==
    /\ local_mode \in BOOLEAN
    /\ guest_rows = 0
    /\ started = 0
    /\ starts = [t \in Threads |-> NoStart]
    /\ last_start = NoStart

\* POST /api/start_crawl of a guest arrives with a URL
GuestArrive(t) ==
    /\ starts[t].pc = "idle"
    /\ started < MaxStarts
    /\ starts' = [starts EXCEPT ![t] =
           [pc |-> IF local_mode THEN "start" ELSE "read", made |-> FALSE,
            at_arrival |-> guest_rows, crawls_from_ip |-> 0]]
    /\ UNCHANGED <<local_mode, guest_rows, started, last_start>>
    /\ UNCHANGED <<rulesVars, parseVars, customVars, pollVars, regVars, lifeVars, histVars,
                   filterVars, refreshVars, overrideVars, analyzeVars>>

\* crawls_from_ip = get_guest_crawls_last_24h(client_ip), and the test on it
GuestRead(t) ==
    /\ starts[t].pc = "read"
    /\ starts' = [starts EXCEPT ![t] =
           IF LimitReached(local_mode, guest_rows) THEN NoStart
           ELSE [@ EXCEPT !.pc = "log", !.crawls_from_ip = guest_rows]]
    /\ UNCHANGED <<local_mode, guest_rows, started, last_start>>
    /\ UNCHANGED <<rulesVars, parseVars, customVars, pollVars, regVars, lifeVars, histVars,
                   filterVars, refreshVars, overrideVars, analyzeVars>>

\* log_guest_crawl(client_ip)
GuestLog(t) ==
    /\ starts[t].pc = "log"
    /\ guest_rows' = guest_rows + 1
    /\ starts' = [starts EXCEPT ![t].pc = "start"]
    /\ UNCHANGED <<local_mode, started, last_start>>
    /\ UNCHANGED <<rulesVars, parseVars, customVars, pollVars, regVars, lifeVars, histVars,
                   filterVars, refreshVars, overrideVars, analyzeVars>>

\* crawler.start_crawl(url, ...) on the session's crawler, and the answer
GuestStart(t, success) ==
    /\ starts[t].pc = "start"
    /\ started' = IF success THEN started + 1 ELSE started
    /\ last_start' = IF success THEN [starts[t] EXCEPT !.pc = "idle", !.made = TRUE]
                     ELSE last_start
    /\ starts' = [starts EXCEPT ![t] = NoStart]
    /\ UNCHANGED <<local_mode, guest_rows>>
    /\ UNCHANGED <<rulesVars, parseVars, customVars, pollVars, regVars, lifeVars, histVars,
                   filterVars, refreshVars, overrideVars, analyzeVars>>

NextGuest ==
    \/ \E t \in Threads : GuestArrive(t)
    \/ \E t \in Threads : GuestRead(t)
    \/ \E t \in Threads : GuestLog(t)
    \/ \E t \in Threads, success \in BOOLEAN : GuestStart(t, success)

InitGuest ==
    GuestInit /\ RulesIdle /\ ParseIdle /\ CustomIdle /\ PollIdle /\ RegIdle /\ LifeIdle
        /\ HistIdle /\ FilterIdle /\ RefreshIdle /\ OverrideIdle /\ AnalyzeIdle

SpecGuest == InitGuest /\ [][NextGuest]_vars

\* C23: outside local mode at most 3 guest crawls are started from one IP in
\* 24 hours, whatever the interleaving of its start requests, and a request
\* that arrives when 3 are logged starts none; in local mode nothing is
\* limited.
C23_AtMostThreeGuestCrawls ==
    /\ ~local_mode => started <= GuestLimit
    /\ (~local_mode /\ last_start.made) => last_start.at_arrival < GuestLimit
    /\ local_mode => \A t \in Threads : starts[t].pc \notin {"read", "log"}


(***************************************************************************)
(* SpecSyllables: every short text over a vowel in both cases, a consonant *)
(* and the space, its words counted.                                       *)
(***************************************************************************)
SyllableChars == {"e", "b", "E", " "}

SyllablesInit ==
    /\ doc \in TextsUpTo(SyllableChars, MaxTextLen)
    /\ analysis = NoAnalysis

\* _count_words, _count_syllables and _count_syllables_in_word on each word
CountText ==
    /\ ~analysis.made
    /\ analysis' = [made |-> TRUE,
                    words |-> FindWords(doc),
                    counts |-> [i \in 1..CountWords(doc) |->
                                   CountSyllablesInWord(FindWords(doc)[i])],
                    word_count |-> CountWords(doc),
                    syllable_count |-> CountSyllables(doc)]
    /\ UNCHANGED doc
    /\ UNCHANGED <<rulesVars, parseVars, customVars, pollVars, regVars, lifeVars, histVars,
                   filterVars, refreshVars, overrideVars, guestVars>>

NextSyllables == CountText

InitSyllables ==
    SyllablesInit /\ RulesIdle /\ ParseIdle /\ CustomIdle /\ PollIdle /\ RegIdle /\ LifeIdle
        /\ HistIdle /\ FilterIdle /\ RefreshIdle /\ OverrideIdle /\ GuestIdle

SpecSyllables == InitSyllables /\ [][NextSyllables]_vars

\* The vowel groups of a word: its vowels that no vowel precedes.
VowelGroups(word) ==
    Cardinality({i \in 1..Len(word) :
                    /\ word[i] \in Vowels
                    /\ i = 1 \/ word[i - 1] \notin Vowels})

\* The word without one trailing e.
WithoutTrailingE(word) ==
    IF word # <<>> /\ word[Len(word)] = "e" THEN SubSeq(word, 1, Len(word) - 1) ELSE word

\* C25: every word counts at least 1 syllable: exactly 1 when it has at most
\* 3 characters, otherwise the number of vowel groups it has left without one
\* trailing e, and 1 when that is 0; so the syllables of a text are never
\* fewer than its words.
C25_SyllablesAtLeastOnePerWord ==
    analysis.made =>
        /\ \A i \in 1..Len(analysis.words) :
               LET w == analysis.words[i]
                   groups == VowelGroups(WithoutTrailingE(w))
               IN  /\ analysis.counts[i] >= 1
                   /\ Len(w) <= 3 => analysis.counts[i] = 1
                   /\ Len(w) > 3 =>
                          analysis.counts[i] = (IF groups = 0 THEN 1 ELSE groups)
        /\ analysis.syllable_count >= analysis.word_count

\* A text counted that holds a word of more than 3 characters with two vowel
\* groups left once its trailing e is dropped, and a second word.
C25_Witness ==
    /\ analysis.made
    /\ analysis.word_count = 2
    /\ \E i \in 1..Len(analysis.words) :
           /\ Len(analysis.words[i]) > 3
           /\ analysis.words[i][Len(analysis.words[i])] = "e"
           /\ analysis.counts[i] = 2


(***************************************************************************)
(* SpecAnalyze: analyze_content on texts made of a repeated piece between  *)
(* two edges: a few repetitions, and about 300 of them.                    *)
(***************************************************************************)
\* e, e., ebebebe (3 syllables), a dash, a space, a full stop on its own
AnalyzePieces ==
    { <<"e", " ">>, <<"e", ".", " ">>, <<"e", "b", "e", "b", "e", "b", "e", " ">>,
      <<"-", " ">>, <<" ">>, <<".">> }

AnalyzeEdges == {<<>>, <<" ">>, <<"E", "?">>}

\* The numbers of repetitions: 0..MaxFew, and those within MaxNear of 300
Repetitions ==
    (0..MaxFew) \cup ((ThinContentWords - MaxNear)..(ThinContentWords + MaxNear))

Repeat(piece, n) == [i \in 1..(n * Len(piece)) |-> piece[((i - 1) % Len(piece)) + 1]]

AnalyzeInit ==
    /\ doc \in {head \o Repeat(piece, n) \o tail :
                   head \in AnalyzeEdges, piece \in AnalyzePieces, n \in Repetitions,
                   tail \in AnalyzeEdges}
    /\ analysis = NoAnalysis

\* analyze_content(text)
Analyze ==
    /\ ~analysis.made
    /\ analysis' = AnalyzeContent(doc)
    /\ UNCHANGED doc
    /\ UNCHANGED <<rulesVars, parseVars, customVars, pollVars, regVars, lifeVars, histVars,
                   filterVars, refreshVars, overrideVars, guestVars>>

NextAnalyze == Analyze

InitAnalyze ==
    AnalyzeInit /\ RulesIdle /\ ParseIdle /\ CustomIdle /\ PollIdle /\ RegIdle /\ LifeIdle
        /\ HistIdle /\ FilterIdle /\ RefreshIdle /\ OverrideIdle /\ GuestIdle

SpecAnalyze == InitAnalyze /\ [][NextAnalyze]_vars

\* The words of a text, each by its last letter: a letter that no letter
\* follows.
WordEndings(t) ==
    {i \in 1..Len(t) : t[i] \notin NonWordChars /\ (i = Len(t) \/ t[i + 1] \in NonWordChars)}

\* C24: the analysis of an empty text, of a text of white space only and of a
\* text without a word is the fixed result of zeros with is_thin_content
\* true; the analysis of a text of 300 words or more has is_thin_content
\* false and a readability score from 0 to 100.
C24_EmptyIsZeroLongIsNotThin ==
    analysis.made =>
        /\ WordEndings(doc) = {} =>
               /\ analysis.word_count = 0
               /\ analysis.sentence_count = 0
               /\ analysis.readability_score = 0
               /\ analysis.flesch_kincaid_grade = 0
               /\ analysis.gunning_fog_index = 0
               /\ analysis.reading_time_minutes = 0
               /\ analysis.keywords = {}
               /\ analysis.is_thin_content
        /\ Cardinality(WordEndings(doc)) >= 300 =>
               /\ ~analysis.is_thin_content
               /\ analysis.readability_score >= 0
               /\ analysis.readability_score <= 1000

\* A text of exactly 300 words analysed, and found to be no thin content.
C24_Witness ==
    /\ analysis.made
    /\ Cardinality(WordEndings(doc)) = 300
    /\ analysis.word_count = 300
    /\ ~analysis.is_thin_content


=============================================================================
